---------------------------- MODULE Spec2Model ----------------------------
(***************************************************************************)
(* Routing-and-dispatch engine of the dynamic MCP orchestrator:            *)
(*   src/src/dynamic_mcp/core/router.py        ContextAwareRouter          *)
(*   src/src/dynamic_mcp/core/orchestrator.py  DynamicMCPOrchestrator      *)
(*   src/src/dynamic_mcp/utils/mcp_client.py   MCPClient.execute_request   *)
(*   src/src/dynamic_mcp/utils/config.py       ConfigManager               *)
(*                                                                         *)
(* Conventions.                                                            *)
(*  - Optional strings (content, repository, branch, user_id) are strings; *)
(*    "" stands for both None and the empty string: the code only ever     *)
(*    tests them for truthiness (`not x`, `x or ''`).                      *)
(*  - Times are whole seconds.  timedelta.seconds is the seconds component *)
(*    of a normalised timedelta (0..86399), the days being kept apart.     *)
(*  - Scores are exact rationals in units of 1/ScoreUnit*10, i.e. the      *)
(*    integer s stands for the score s / (10 * ScoreUnit).                 *)
(*  - hashlib.md5 is taken to be collision free on the strings of the      *)
(*    model: a cache key is the string that is hashed.                     *)
(*  - The router has no suspension point between its cache lookup and its  *)
(*    cache store (every awaited coroutine runs to completion without      *)
(*    yielding to the event loop), so one route call is one step.          *)
(***************************************************************************)
EXTENDS Integers, Sequences, FiniteSets, TLC

VARIABLES
    config,         \* ConfigManager._config: 0 is None, else an index of ConfigFiles
    now,            \* the wall clock, in seconds
    routing_cache,  \* ContextAwareRouter._routing_cache: cache key -> RoutingResult
    health_cache,   \* ContextAwareRouter._server_health_cache: name -> <<healthy, time>>
    ret,            \* what the last router / engine operation returned
    pc,             \* stage of the process_trigger call in flight
    call,           \* the process_trigger call in flight: trigger, routing result, ...
    tasks,          \* the per-server dispatch tasks of the call: name -> task
    ncalls,         \* number of process_trigger calls started (request counter)
    processor,      \* the TriggerProcessor: _running, its tasks, its queue
    webhook         \* the GitHubEventHandler: its event queue, its last answer

vars == <<config, now, routing_cache, health_cache, ret, pc, call, tasks, ncalls,
          processor, webhook>>

routerVars == <<config, now, routing_cache, health_cache, ret>>
engineVars == <<pc, call, tasks, ncalls>>
automationVars == <<processor, webhook>>

-----------------------------------------------------------------------------
(* Bounds of the model *)

\* days the clock may run past day 0
MaxDays == 1
\* number of short clock steps within one day
MaxSteps == 2
\* process_trigger calls one behaviour starts
MaxCalls == 1
\* length of a short clock step, in seconds
ShortStep == 150
\* start calls of one behaviour that create tasks
MaxStarts == 3
\* add_trigger calls of one behaviour
MaxTriggers == 3
\* webhook requests of one behaviour
MaxRequests == 2

-----------------------------------------------------------------------------
(* Program constants *)

CacheTTL == 300
SecondsPerDay == 86400
MaxSelected == 3
\* lcm of the lengths of the capability keyword lists (9, 10, 11, 13)
ScoreUnit == 12870

-----------------------------------------------------------------------------
(* Text *)

Min(a, b) == IF a <= b THEN a ELSE b

Range(q) == {q[i] : i \in 1..Len(q)}

RECURSIVE Pow2(_)
Pow2(n) == IF n = 0 THEN 1 ELSE 2 * Pow2(n - 1)

\* `k in s` for Python strings
Contains(s, k) ==
    \E i \in 1..(Len(s) - Len(k) + 1) : SubSeq(s, i, i + Len(k) - 1) = k

UpperCase == <<"A", "B", "C", "D", "E", "F", "G", "H", "I", "J", "K", "L", "M",
               "N", "O", "P", "Q", "R", "S", "T", "U", "V", "W", "X", "Y", "Z">>
LowerCase == <<"a", "b", "c", "d", "e", "f", "g", "h", "i", "j", "k", "l", "m",
               "n", "o", "p", "q", "r", "s", "t", "u", "v", "w", "x", "y", "z">>

LowerChar(c) ==
    IF \E i \in 1..26 : UpperCase[i] = c
    THEN LowerCase[CHOOSE i \in 1..26 : UpperCase[i] = c]
    ELSE c

\* str.lower()
RECURSIVE Lower(_)
Lower(s) ==
    IF Len(s) = 0 THEN s
    ELSE LowerChar(SubSeq(s, 1, 1)) \o Lower(SubSeq(s, 2, Len(s)))

\* re.match(pattern, s): the pattern must match at the START of s (not all of
\* s).  A pattern is a set of literal alternatives, anchored at the end or not.
ReMatch(pattern, s) ==
    \E a \in pattern.alts :
        /\ Len(a) <= Len(s)
        /\ SubSeq(s, 1, Len(a)) = a
        /\ (pattern.dollar => Len(a) = Len(s))

-----------------------------------------------------------------------------
(* Schemas and configuration *)

\* ServerCapability -> its keyword list, in the order of the dictionary
CapabilityKeywords ==
    << [cap |-> "code_analysis",
        keywords |-> <<"code", "analysis", "lint", "review", "syntax", "bug",
                       "refactor", "quality", "complexity", "smell", "pattern",
                       "ast", "parse">>],
       [cap |-> "documentation",
        keywords |-> <<"docs", "documentation", "readme", "guide", "tutorial",
                       "manual", "comment", "docstring", "explain", "describe",
                       "wiki">>],
       [cap |-> "testing",
        keywords |-> <<"test", "testing", "unittest", "pytest", "coverage",
                       "mock", "assertion", "verify", "validate", "check",
                       "spec">>],
       [cap |-> "deployment",
        keywords |-> <<"deploy", "deployment", "release", "build", "ci", "cd",
                       "pipeline", "docker", "kubernetes", "helm", "terraform">>],
       [cap |-> "monitoring",
        keywords |-> <<"monitor", "metrics", "logs", "alert", "performance",
                       "health", "trace", "observability", "prometheus",
                       "grafana">>],
       [cap |-> "security",
        keywords |-> <<"security", "vulnerability", "auth", "permission",
                       "encrypt", "secure", "threat", "scan", "audit",
                       "compliance">>],
       [cap |-> "data_processing",
        keywords |-> <<"data", "process", "transform", "etl", "pipeline",
                       "batch", "stream", "analytics", "database", "query">>],
       [cap |-> "ai_inference",
        keywords |-> <<"ai", "ml", "model", "inference", "predict", "classify",
                       "neural", "deep", "learning", "tensorflow", "pytorch">>],
       [cap |-> "workflow_automation",
        keywords |-> <<"workflow", "automation", "trigger", "schedule", "job",
                       "task", "orchestration", "pipeline", "action">>],
       [cap |-> "integration",
        keywords |-> <<"integration", "api", "webhook", "connect", "sync",
                       "interface", "bridge", "adapter", "plugin", "extension">>] >>

\* MCPServerConfig with the schema's defaults (timeout 30, retry_count 3,
\* health_check_interval 60)
Server(name, caps, priority, enabled) ==
    [name |-> name, capabilities |-> caps, priority |-> priority,
     enabled |-> enabled, timeout |-> 30, retry_count |-> 3,
     health_check_interval |-> 60]

\* RoutingRule
Rule(name, kinds, conditions, targets, priority, enabled) ==
    [name |-> name, trigger_types |-> kinds, conditions |-> conditions,
     target_servers |-> targets, priority |-> priority, enabled |-> enabled]

DefaultRules ==
    << Rule("issue-to-code-analysis", {"issue"},
            [keywords |-> <<"bug", "error", "fix", "code">>],
            {"code-analysis-server"}, 8, TRUE),
       Rule("pr-to-code-analysis", {"pull_request"}, <<>>,
            {"code-analysis-server"}, 9, TRUE),
       Rule("push-to-deployment", {"push"},
            [branch |-> [alts |-> {"main", "master"}, dollar |-> FALSE]],
            {"deployment-server"}, 7, TRUE) >>

\* ConfigManager._create_default_config
DefaultConfig ==
    [servers |->
        << Server("code-analysis-server", <<"code_analysis", "testing">>, 8, TRUE),
           Server("documentation-server", <<"documentation">>, 6, TRUE),
           Server("deployment-server", <<"deployment", "monitoring">>, 7, TRUE) >>,
     routing_rules |-> DefaultRules,
     request_timeout |-> 60]

\* The default configuration with two more servers: more than MaxSelected
\* servers score above the threshold, one priority-1 server scores exactly 0.1
\* unless the content names its capability, and the servers differ in their
\* timeouts and retry counts.
WideConfig ==
    [servers |->
        << [Server("code-analysis-server", <<"code_analysis", "testing">>, 8, TRUE)
               EXCEPT !.timeout = 5, !.retry_count = 1],
           [Server("documentation-server", <<"documentation">>, 6, TRUE)
               EXCEPT !.retry_count = 0],
           [Server("deployment-server", <<"deployment", "monitoring">>, 7, TRUE)
               EXCEPT !.retry_count = 2],
           [Server("security-server", <<"security">>, 6, TRUE)
               EXCEPT !.timeout = 5, !.retry_count = 2],
           Server("inference-server", <<"ai_inference">>, 1, TRUE) >>,
     routing_rules |-> DefaultRules,
     request_timeout |-> 60]

\* No server is enabled
DisabledConfig ==
    [DefaultConfig EXCEPT !.servers =
        [i \in 1..Len(DefaultConfig.servers) |->
            [DefaultConfig.servers[i] EXCEPT !.enabled = FALSE]]]

\* No server is configured
EmptyConfig == [DefaultConfig EXCEPT !.servers = <<>>]

\* The configurations a configuration file of the model may hold
ConfigFiles == <<DefaultConfig, WideConfig, DisabledConfig, EmptyConfig>>

\* What load_config may find on disk: a valid file (its index), no file, or a
\* file that does not parse or validate
FileStates ==
    {[kind |-> "valid", idx |-> i] : i \in 1..Len(ConfigFiles)}
        \cup {[kind |-> "missing", idx |-> 0], [kind |-> "invalid", idx |-> 0]}

\* TriggerContext
Trigger(kind, source, content, repository, branch, user_id) ==
    [trigger_type |-> kind, source |-> source, content |-> content,
     repository |-> repository, branch |-> branch, user_id |-> user_id]

\* The triggers of the model.  The second and third differ only in their
\* branch; the last two split the same text differently between source and
\* content.
Triggers ==
    { Trigger("issue", "github", "Fix BUG in code", "org/app", "", "alice"),
      Trigger("push", "github", "lint code bug", "org/app", "main", "bob"),
      Trigger("push", "github", "lint code bug", "org/app", "dev", "bob"),
      Trigger("user_prompt", "ai", "", "", "", ""),
      Trigger("user_prompt", "", "ai", "", "", "") }

-----------------------------------------------------------------------------
(* Router: pure parts *)

\* (later - earlier).seconds for datetimes later >= earlier
TimedeltaSeconds(later, earlier) == (later - earlier) % SecondsPerDay

\* ContextAwareRouter._generate_cache_key: the string whose md5 is the key
GenerateCacheKey(context) ==
    context.trigger_type \o context.source \o context.content \o context.repository

\* ContextAwareRouter._check_rule_conditions
CheckRuleConditions(rule, context) ==
    LET conditions == rule.conditions
        has(k) == k \in DOMAIN conditions
    IN  /\ has("repository") =>
              /\ context.repository # ""
              /\ ReMatch(conditions["repository"], context.repository)
        /\ (has("keywords") /\ context.content # "") =>
              \E i \in 1..Len(conditions["keywords"]) :
                  Contains(Lower(context.content), Lower(conditions["keywords"][i]))
        /\ has("user") =>
              /\ context.user_id # ""
              /\ ReMatch(conditions["user"], context.user_id)
        /\ has("branch") =>
              /\ context.branch # ""
              /\ ReMatch(conditions["branch"], context.branch)

\* ContextAwareRouter._apply_routing_rules, for one server: the indices (in
\* configuration order) of the rules that match
MatchingRules(cfg, context, server) ==
    SelectSeq([i \in 1..Len(cfg.routing_rules) |-> i],
              LAMBDA i :
                LET rule == cfg.routing_rules[i]
                IN  /\ rule.enabled
                    /\ server.name \in rule.target_servers
                    /\ context.trigger_type \in rule.trigger_types
                    /\ CheckRuleConditions(rule, context))

\* ContextAwareRouter._apply_routing_rules: server name -> matching rules
ApplyRoutingRules(cfg, context, servers) ==
    [n \in {servers[i].name : i \in 1..Len(servers)} |->
        MatchingRules(cfg, context,
                      servers[CHOOSE i \in 1..Len(servers) : servers[i].name = n])]

\* a capability counted once however many of its keywords occur
HitsAtMostOne(keywords, content) ==
    IF \E i \in 1..Len(keywords) : Contains(content, keywords[i]) THEN 1 ELSE 0

\* number of the keywords of a list that occur in the content
Hits(keywords, content) ==
    Cardinality({i \in 1..Len(keywords) : Contains(content, keywords[i])})

\* ContextAwareRouter._analyze_content_for_capabilities: capability -> score,
\* in units of 1/ScoreUnit; a capability with no hit has no entry
AnalyzeContentForCapabilities(context) ==
    IF context.content = "" THEN <<>>
    ELSE LET content == Lower(context.content)
             hit == {i \in 1..Len(CapabilityKeywords) :
                        Hits(CapabilityKeywords[i].keywords, content) > 0}
             idx(c) == CHOOSE i \in hit : CapabilityKeywords[i].cap = c
         IN  [c \in {CapabilityKeywords[i].cap : i \in hit} |->
                 Min((Hits(CapabilityKeywords[idx(c)].keywords, content) * ScoreUnit)
                         \div Len(CapabilityKeywords[idx(c)].keywords),
                     ScoreUnit)]

RECURSIVE SumSeq(_)
SumSeq(q) == IF q = <<>> THEN 0 ELSE Head(q) + SumSeq(Tail(q))

\* the bonus given whatever the trigger type
AffinityBonusAnyTrigger(server, context) ==
    IF \E i \in 1..Len(server.capabilities) :
          server.capabilities[i] \in {"code_analysis", "deployment"}
    THEN 2 * ScoreUnit ELSE 0

\* the bonus for the trigger type, in units of 1/(10 * ScoreUnit)
AffinityBonus(server, context) ==
    LET has(c) == \E i \in 1..Len(server.capabilities) : server.capabilities[i] = c
    IN  IF context.trigger_type = "issue" /\ has("code_analysis") THEN 2 * ScoreUnit
        ELSE IF context.trigger_type = "pull_request" /\ has("code_analysis")
             THEN 2 * ScoreUnit
        ELSE IF context.trigger_type = "push" /\ has("deployment") THEN 2 * ScoreUnit
        ELSE 0

\* ContextAwareRouter._calculate_server_scores, for one server, in units of
\* 1/(10 * ScoreUnit): priority*0.1 + sum(rule.priority*0.3)
\*                     + sum(content_scores[cap]*0.6) + bonus
ServerScore(cfg, server, rules, content_scores, context) ==
    server.priority * ScoreUnit
      + SumSeq([j \in 1..Len(rules) |-> cfg.routing_rules[rules[j]].priority * 3 * ScoreUnit])
      + SumSeq([j \in 1..Len(server.capabilities) |->
                  IF server.capabilities[j] \in DOMAIN content_scores
                  THEN content_scores[server.capabilities[j]] * 6 ELSE 0])
      + AffinityBonus(server, context)

\* ContextAwareRouter._calculate_server_scores: server name -> score
CalculateServerScores(cfg, servers, rule_matches, content_scores, context) ==
    [n \in {servers[i].name : i \in 1..Len(servers)} |->
        LET server == servers[CHOOSE i \in 1..Len(servers) : servers[i].name = n]
        IN  ServerScore(cfg, server, rule_matches[n], content_scores, context)]

\* a sort that puts the later of two names of equal score first
RECURSIVE SortedDescTiesReversed(_, _)
SortedDescTiesReversed(names, scores) ==
    IF names = <<>> THEN <<>>
    ELSE LET rest == SortedDescTiesReversed(SubSeq(names, 1, Len(names) - 1), scores)
             x == names[Len(names)]
             before == SelectSeq(rest, LAMBDA y : scores[y] > scores[x])
             after == SelectSeq(rest, LAMBDA y : scores[y] <= scores[x])
         IN  before \o <<x>> \o after

\* sorted(items, key=score, reverse=True): a stable sort, equal scores keep
\* the order of `names`
RECURSIVE SortedDesc(_, _)
SortedDesc(names, scores) ==
    IF names = <<>> THEN <<>>
    ELSE LET rest == SortedDesc(SubSeq(names, 1, Len(names) - 1), scores)
             x == names[Len(names)]
             before == SelectSeq(rest, LAMBDA y : scores[y] >= scores[x])
             after == SelectSeq(rest, LAMBDA y : scores[y] < scores[x])
         IN  before \o <<x>> \o after

\* _select_top_servers without the limit of three
SelectTopServersNoLimit(names, server_scores) ==
    SelectSeq(SortedDesc(names, server_scores), LAMBDA n : server_scores[n] > ScoreUnit)

\* _select_top_servers with a threshold that a score of 0.1 reaches
SelectTopServersAtThreshold(names, server_scores) ==
    LET selected_servers == SelectSeq(SortedDesc(names, server_scores),
                                      LAMBDA n : server_scores[n] >= ScoreUnit)
    IN  SubSeq(selected_servers, 1, Min(MaxSelected, Len(selected_servers)))

\* ContextAwareRouter._select_top_servers; `names` is the dictionary's
\* insertion order
SelectTopServers(names, server_scores) ==
    LET sorted_servers == SortedDesc(names, server_scores)
        selected_servers == SelectSeq(sorted_servers,
                                      LAMBDA n : server_scores[n] > ScoreUnit)
    IN  SubSeq(selected_servers, 1, Min(MaxSelected, Len(selected_servers)))

-----------------------------------------------------------------------------
(* Configuration manager *)

\* ConfigManager.load_config reading file state f while _config is cur: the
\* new _config and whether the call raised.  With no file it returns the
\* default configuration WITHOUT installing it; an unreadable or invalid file
\* raises before _config is assigned.
LoadConfig(cur, f) ==
    CASE f.kind = "valid"   -> [config |-> f.idx, raised |-> FALSE]
      [] f.kind = "missing" -> [config |-> cur, raised |-> FALSE]
      [] OTHER              -> [config |-> cur, raised |-> TRUE]

\* ConfigManager.get_config: loads only while _config is None
GetConfig(cur, f) ==
    IF cur = 0 THEN LoadConfig(cur, f) ELSE [config |-> cur, raised |-> FALSE]

-----------------------------------------------------------------------------
(* Router: health cache, routing cache, route_trigger *)

\* the health check proper: "assume servers are healthy if they're enabled"
HealthProbe(server) == TRUE

\* ContextAwareRouter._check_server_health at time t with health cache hc:
\* the answer and the cache afterwards
CheckServerHealth(hc, server, t) ==
    IF /\ server.name \in DOMAIN hc
       /\ TimedeltaSeconds(t, hc[server.name][2]) < server.health_check_interval
    THEN [healthy |-> hc[server.name][1], cache |-> hc]
    ELSE [healthy |-> HealthProbe(server),
          cache |-> (server.name :> <<HealthProbe(server), t>>) @@ hc]

\* _get_available_servers without the test of the enabled flag
RECURSIVE GetAvailableServersAny(_, _, _)
GetAvailableServersAny(servers, hc, t) ==
    IF servers = <<>> THEN [servers |-> <<>>, cache |-> hc]
    ELSE LET h == CheckServerHealth(hc, Head(servers), t)
             rest == GetAvailableServersAny(Tail(servers), h.cache, t)
         IN  [servers |-> IF h.healthy THEN <<Head(servers)>> \o rest.servers
                          ELSE rest.servers,
              cache |-> rest.cache]

\* ContextAwareRouter._get_available_servers over the servers of the
\* configuration, in order: the available servers and the health cache
\* afterwards
RECURSIVE GetAvailableServers(_, _, _)
GetAvailableServers(servers, hc, t) ==
    IF servers = <<>> THEN [servers |-> <<>>, cache |-> hc]
    ELSE LET server == Head(servers)
         IN  IF ~server.enabled THEN GetAvailableServers(Tail(servers), hc, t)
             ELSE LET h == CheckServerHealth(hc, server, t)
                      rest == GetAvailableServers(Tail(servers), h.cache, t)
                  IN  [servers |-> IF h.healthy THEN <<server>> \o rest.servers
                                   ELSE rest.servers,
                       cache |-> rest.cache]

\* RoutingResult (processing_time, a duration, is left out)
RoutingResult(selected, scores, reason, fallback, t) ==
    [selected_servers |-> selected, confidence_scores |-> scores,
     routing_reason |-> reason, fallback_used |-> fallback, timestamp |-> t]

\* route_trigger without its cache test
CacheHitNever(rc, key, t) == FALSE

\* the cache test with a TTL of one minute
CacheHitOneMinute(rc, key, t) ==
    /\ key \in DOMAIN rc
    /\ TimedeltaSeconds(t, rc[key].timestamp) < 60

\* the cache test of route_trigger: an entry for the key whose age, taken with
\* timedelta.seconds, is below the TTL
CacheHit(rc, key, t) ==
    /\ key \in DOMAIN rc
    /\ TimedeltaSeconds(t, rc[key].timestamp) < CacheTTL

\* _analyze_content_for_capabilities and the rule matches of every server, for
\* the triggers and configurations of the model, evaluated once
ContentScoresOf == [context \in Triggers |-> AnalyzeContentForCapabilities(context)]
RuleMatchesOf ==
    [ci \in 1..Len(ConfigFiles) |->
        [context \in Triggers |->
            ApplyRoutingRules(ConfigFiles[ci], context, ConfigFiles[ci].servers)]]

\* the body of route_trigger after the cache test, under configuration ci
ComputeRoute(ci, context, hc, t) ==
    LET cfg == ConfigFiles[ci]
        avail == GetAvailableServers(cfg.servers, hc, t)
        servers == avail.servers
        names == [i \in 1..Len(servers) |-> servers[i].name]
        rule_matches == [n \in {names[i] : i \in 1..Len(names)} |->
                            RuleMatchesOf[ci][context][n]]
        content_scores == ContentScoresOf[context]
        server_scores == CalculateServerScores(cfg, servers, rule_matches,
                                               content_scores, context)
        selected_servers == SelectTopServers(names, server_scores)
    IN  IF servers = <<>>
        THEN [result |-> RoutingResult(<<>>, <<>>, "No available servers", TRUE, t),
              health_cache |-> avail.cache, store |-> FALSE, scored |-> FALSE]
        ELSE [result |-> RoutingResult(selected_servers, server_scores, "routed",
                                       Len(selected_servers) = 0, t),
              health_cache |-> avail.cache, store |-> TRUE, scored |-> TRUE]

\* ContextAwareRouter.route_trigger in the current state; f is what a load of
\* the configuration file would find.  Yields the result returned and the
\* state afterwards.
RouteTrigger(context, f) ==
    LET key == GenerateCacheKey(context)
        gc == GetConfig(config, f)
    IN  IF CacheHit(routing_cache, key, now)
        THEN [result |-> routing_cache[key], hit |-> TRUE, scored |-> FALSE,
              config |-> config, routing_cache |-> routing_cache,
              health_cache |-> health_cache]
        ELSE IF gc.raised \/ gc.config = 0
        THEN \* the except branch: get_config raised, or config is None
             [result |-> RoutingResult(<<>>, <<>>, "Routing error", TRUE, now),
              hit |-> FALSE, scored |-> FALSE,
              config |-> gc.config, routing_cache |-> routing_cache,
              health_cache |-> health_cache]
        ELSE LET c == ComputeRoute(gc.config, context, health_cache, now)
             IN  [result |-> c.result, hit |-> FALSE, scored |-> c.scored,
                  config |-> gc.config,
                  routing_cache |-> IF c.store
                                    THEN (key :> c.result) @@ routing_cache
                                    ELSE routing_cache,
                  health_cache |-> c.health_cache]

\* clear_cache forgetting the routing cache
ClearHealthCacheOnly == [routing_cache |-> routing_cache, health_cache |-> <<>>]

\* ContextAwareRouter.clear_cache
ClearCache == [routing_cache |-> <<>>, health_cache |-> <<>>]

\* reload_configuration without the call of clear_cache
ReloadConfigurationKeepCaches(f) ==
    LET lc == LoadConfig(config, f)
    IN  [config |-> lc.config, routing_cache |-> routing_cache,
         health_cache |-> health_cache, raised |-> lc.raised]

\* a reload that clears the caches whether or not the load raised
ReloadConfigurationClearingAlways(f) ==
    LET lc == LoadConfig(config, f)
    IN  [config |-> lc.config, routing_cache |-> ClearCache.routing_cache,
         health_cache |-> ClearCache.health_cache, raised |-> lc.raised]

\* DynamicMCPOrchestrator.reload_configuration reading file state f: the
\* caches are cleared after the reload, unless the reload raised
ReloadConfiguration(f) ==
    LET lc == LoadConfig(config, f)
    IN  IF lc.raised
        THEN [config |-> config, routing_cache |-> routing_cache,
              health_cache |-> health_cache, raised |-> TRUE]
        ELSE [config |-> lc.config, routing_cache |-> ClearCache.routing_cache,
              health_cache |-> ClearCache.health_cache, raised |-> FALSE]

\* the servers of configuration ci (none while no configuration is installed)
ActiveServersOf(ci) == IF ci = 0 THEN {} ELSE Range(ConfigFiles[ci].servers)

-----------------------------------------------------------------------------
(* Actions of the router *)

NoTrigger == Trigger("", "", "", "", "", "")
NoResult == RoutingResult(<<>>, <<>>, "", FALSE, 0)

\* what an operation returned: the trigger and result of a route call, whether
\* it was answered from the cache, whether scoring ran, the true age of the
\* entry found for the key (-1: none), and whether the call changed a cache
Returned(op, context, result, hit, scored, age, changed, raised) ==
    [op |-> op, trigger |-> context, result |-> result, hit |-> hit,
     scored |-> scored, cached_age |-> age, changed |-> changed, raised |-> raised]

NoReturn == Returned("none", NoTrigger, NoResult, FALSE, FALSE, -1, FALSE, FALSE)

\* the file states a step may find: the file is read only while no
\* configuration is installed
FilesFor(cur) == IF cur = 0 THEN FileStates ELSE {[kind |-> "missing", idx |-> 0]}

\* route(trigger)
Route(context) ==
    \E f \in FilesFor(config) :
      \E r \in {RouteTrigger(context, f)} :
        LET key == GenerateCacheKey(context)
            age == IF key \in DOMAIN routing_cache
                   THEN now - routing_cache[key].timestamp ELSE -1
        IN  /\ config' = r.config
            /\ routing_cache' = r.routing_cache
            /\ health_cache' = r.health_cache
            /\ ret' = Returned("route", context, r.result, r.hit, r.scored, age,
                               r.routing_cache # routing_cache
                                   \/ r.health_cache # health_cache,
                               FALSE)
            /\ UNCHANGED <<automationVars, now, pc, call, tasks, ncalls>>

\* route_trigger storing the result of its except clause in the routing cache
RouteTriggerFaultingCached(context, f) ==
    LET r == RouteTrigger(context, f)
        error == RoutingResult(<<>>, <<>>, "Routing error", TRUE, now)
    IN  IF r.scored
        THEN [r EXCEPT !.result = error, !.scored = FALSE,
                       !.routing_cache = (GenerateCacheKey(context) :> error)
                                             @@ routing_cache]
        ELSE r

\* route_trigger when rule evaluation or scoring raises (a malformed pattern
\* handed to re.match, say): the health checks have been made, the except
\* clause builds the result and nothing is stored.  A call that is answered
\* from the cache, fails earlier or finds no server does not get that far.
RouteTriggerFaulting(context, f) ==
    LET r == RouteTrigger(context, f)
    IN  IF r.scored
        THEN [r EXCEPT !.result = RoutingResult(<<>>, <<>>, "Routing error", TRUE, now),
                       !.scored = FALSE,
                       !.routing_cache = routing_cache]
        ELSE r

\* route(trigger) with an exception in rule evaluation or scoring
RouteFaulting(context) ==
    \E f \in FilesFor(config) :
      \E r \in {RouteTriggerFaulting(context, f)} :
        LET key == GenerateCacheKey(context)
            age == IF key \in DOMAIN routing_cache
                   THEN now - routing_cache[key].timestamp ELSE -1
        IN  /\ config' = r.config
            /\ routing_cache' = r.routing_cache
            /\ health_cache' = r.health_cache
            /\ ret' = Returned("route", context, r.result, r.hit, r.scored, age,
                               r.routing_cache # routing_cache
                                   \/ r.health_cache # health_cache,
                               FALSE)
            /\ UNCHANGED <<automationVars, now, pc, call, tasks, ncalls>>

\* reload()
Reload(f) ==
    \E r \in {ReloadConfiguration(f)} :
        /\ config' = r.config
        /\ routing_cache' = r.routing_cache
        /\ health_cache' = r.health_cache
        /\ ret' = [NoReturn EXCEPT !.op = "reload", !.raised = r.raised,
                                    !.changed = r.routing_cache # routing_cache
                                                  \/ r.health_cache # health_cache]
        /\ UNCHANGED <<automationVars, now, pc, call, tasks, ncalls>>

\* the clock advances by a short step within the day
TickShort ==
    /\ (now % SecondsPerDay) + ShortStep <= MaxSteps * ShortStep
    /\ now' = now + ShortStep
    /\ ret' = NoReturn
    /\ UNCHANGED <<automationVars, config, routing_cache, health_cache, pc, call, tasks, ncalls>>

\* the clock advances by one day
TickDay ==
    /\ now \div SecondsPerDay < MaxDays
    /\ now' = now + SecondsPerDay
    /\ ret' = NoReturn
    /\ UNCHANGED <<automationVars, config, routing_cache, health_cache, pc, call, tasks, ncalls>>

-----------------------------------------------------------------------------
(* Request executor: MCPClient.execute_request *)

\* what one attempt (one session.post) may end in, besides running into the
\* server's timeout: a 200 response, a response with a 5xx or a 4xx status,
\* or an exception that is no aiohttp.ClientError (a payload that cannot be
\* serialised, say)
AttemptOutcomes == {"ok", "http_5xx", "http_4xx", "malformed"}

\* except (aiohttp.ClientError, asyncio.TimeoutError): a status other than 200
\* is raised as aiohttp.ClientError, whatever its class
CaughtForRetry(kind) == kind \in {"http_5xx", "http_4xx", "timeout"}

\* the loop bound with the + 1 forgotten
MaxAttemptsOffByOne(server) == server.retry_count

\* for attempt in range(server_config.retry_count + 1)
MaxAttempts(server) == server.retry_count + 1

\* wait_time = 2 ** attempt
BackoffWait(attempt) == Pow2(attempt)

\* MCPResponse (the payload is left out: success tells whether there is one)
MCPResponse(name, success, error, processing_time) ==
    [server_name |-> name, success |-> success, error |-> error,
     processing_time |-> processing_time]

NoResponse == MCPResponse("", FALSE, "", 0)

\* a dispatch task, _execute_on_single_server, at the start of attempt 0
NewTask(server, t) ==
    [server |-> server.name, start |-> t, attempt |-> 0, phase |-> "request",
     until |-> t + server.timeout, waits |-> <<>>, last |-> "",
     timed_out |-> FALSE, response |-> NoResponse]

\* the task after _execute_on_single_server returned at time t
Finished(task, success, error, t) ==
    [task EXCEPT !.phase = "done",
                 !.response = MCPResponse(task.server, success, error, t - task.start)]

\* the task after its current attempt ended as `kind` at time t
AfterAttempt(task, server, kind, t) ==
    LET seen == [task EXCEPT !.last = kind,
                             !.timed_out = @ \/ kind = "timeout"]
    IN  IF kind = "ok" THEN Finished(seen, TRUE, "", t)
        ELSE IF ~CaughtForRetry(kind) THEN Finished(seen, FALSE, kind, t)
        ELSE IF task.attempt < server.retry_count
             THEN [seen EXCEPT !.phase = "backoff",
                               !.until = t + BackoffWait(task.attempt),
                               !.waits = Append(@, BackoffWait(task.attempt))]
             ELSE Finished(seen, FALSE, kind, t)

\* the task after asyncio.sleep(wait_time) returned at time t: the next
\* iteration of the loop, or, the loop being over, the RuntimeError behind it
AfterBackoff(task, server, t) ==
    IF task.attempt + 1 < MaxAttempts(server)
    THEN [task EXCEPT !.attempt = @ + 1, !.phase = "request",
                      !.until = t + server.timeout]
    ELSE Finished(task, FALSE, "failed after all retries", t)

-----------------------------------------------------------------------------
(* Orchestrator: process_trigger *)

\* OrchestrationResult; final_response is "" for None.  `raised` tells that
\* process_trigger ended in an exception instead of a result.
OrchestrationResult(routing_result, responses, final_response, success) ==
    [routing_result |-> routing_result, server_responses |-> responses,
     final_response |-> final_response, success |-> success, raised |-> FALSE]

NoOrchestration == OrchestrationResult(NoResult, <<>>, "", FALSE)

\* an except clause whose RoutingResult does not report the fallback
ProcessingErrorNoFallback ==
    OrchestrationResult(RoutingResult(<<>>, <<>>, "Processing error", FALSE, now),
                        <<>>, "", FALSE)

\* process_trigger without its except clause: the exception reaches the caller
ProcessingErrorUncaught ==
    [NoOrchestration EXCEPT !.raised = TRUE]

\* the except clause of process_trigger
ProcessingError ==
    OrchestrationResult(RoutingResult(<<>>, <<>>, "Processing error", TRUE, now),
                        <<>>, "", FALSE)

\* success computed as "every response succeeded"
AnySuccessAsAll(responses) ==
    \A i \in 1..Len(responses) : responses[i].success

\* any(response.success for response in server_responses)
AnySuccess(responses) ==
    \E i \in 1..Len(responses) : responses[i].success

\* the call of process_trigger in flight: its trigger, the keys of the
\* trigger's metadata dictionary, the routing result, the server names handed
\* to _execute_on_servers, the global deadline and whether it fired, the
\* responses and the OrchestrationResult returned; generator_input is the
\* number of responses generate_response was invoked with (-1: not invoked)
Call(context, metadata, routing_result, names, deadline, fired, responses, result) ==
    [trigger |-> context, metadata |-> metadata, routing_result |-> routing_result,
     names |-> names, deadline |-> deadline, fired |-> fired,
     responses |-> responses, result |-> result, generator_input |-> -1]

NoCall == Call(NoTrigger, {}, NoResult, <<>>, 0, FALSE, <<>>, NoOrchestration)

\* the generator invoked whatever the responses
GeneratorInvokedAlways(successful) == TRUE

\* if not successful_responses: return None
GeneratorInvoked(successful) == successful # <<>>

\* the servers of the configuration by name
ServerNamed(ci, n) ==
    CHOOSE server \in Range(ConfigFiles[ci].servers) : server.name = n

\* tasks started in turn: the first at once, each other one held back until
\* the first attempt of the first is over
StartedInTurn(present, t) ==
    [n \in Range(present) |->
        IF n = present[1] THEN NewTask(ServerNamed(config, n), t)
        ELSE [NewTask(ServerNamed(config, n), t) EXCEPT
                 !.phase = "backoff",
                 !.until = t + ServerNamed(config, present[1]).timeout]]

\* the tasks asyncio.gather makes of the coroutines it is given: each is
\* scheduled at once and runs up to its first session.post
StartedTasks(present, t) ==
    [n \in Range(present) |-> NewTask(ServerNamed(config, n), t)]

\* process_trigger going on whatever the selection
NoServersSelectedIgnored(routing_result) == FALSE

\* if not routing_result.selected_servers
NoServersSelected(routing_result) == routing_result.selected_servers = <<>>

\* process_trigger up to the return of route_trigger
StartProcess(context) ==
    /\ pc \in {"idle", "done"}
    /\ ncalls < MaxCalls
    /\ ncalls' = ncalls + 1
    /\ tasks' = <<>>
    /\ \E f \in FilesFor(config) :
         \E r \in {RouteTrigger(context, f)} :
            LET key == GenerateCacheKey(context)
                age == IF key \in DOMAIN routing_cache
                       THEN now - routing_cache[key].timestamp ELSE -1
            IN  /\ config' = r.config
                /\ routing_cache' = r.routing_cache
                /\ health_cache' = r.health_cache
                /\ ret' = Returned("route", context, r.result, r.hit, r.scored, age,
                                   r.routing_cache # routing_cache
                                       \/ r.health_cache # health_cache,
                                   FALSE)
                /\ IF NoServersSelected(r.result)
                   THEN /\ pc' = "done"
                        /\ call' = Call(context, {}, r.result, <<>>, 0, FALSE, <<>>,
                                        OrchestrationResult(r.result, <<>>, "", FALSE))
                   ELSE /\ pc' = "enhance"
                        /\ call' = Call(context, {}, r.result, <<>>, 0, FALSE, <<>>,
                                        NoOrchestration)
    /\ UNCHANGED <<automationVars, now>>

\* _enhance_context_with_rag; `retrieval` is what the retriever does.  The
\* copy made by model_copy() shares the metadata dictionary of the original.
EnhanceContextWithRag(retrieval) ==
    /\ pc = "enhance"
    /\ IF call.trigger.content = "" \/ retrieval = "raise"
       THEN call' = call
       ELSE call' = [call EXCEPT !.metadata = @ \cup {"rag_context", "rag_enhanced"}]
    /\ pc' = "dispatch"
    /\ UNCHANGED <<automationVars, config, now, routing_cache, health_cache, ret, tasks, ncalls>>

\* _execute_on_servers up to the start of wait_for(gather(...)): one task per
\* selected server that the configuration names.  `fault` is an exception
\* raised here, outside every try of _execute_on_servers.
BeginDispatch(fault) ==
    /\ pc = "dispatch"
    /\ IF fault
       THEN /\ pc' = "done"
            /\ call' = [call EXCEPT !.result = ProcessingError]
            /\ tasks' = <<>>
       ELSE LET names == call.routing_result.selected_servers
                present == SelectSeq(names,
                              LAMBDA n : \E server \in ActiveServersOf(config) :
                                            server.name = n)
            IN  /\ pc' = "gather"
                /\ tasks' = StartedTasks(present, now)
                /\ call' = [call EXCEPT !.names = names,
                              !.deadline = now + ConfigFiles[config].request_timeout]
    /\ UNCHANGED <<automationVars, config, now, routing_cache, health_cache, ret, ncalls>>

\* the session.post of task n ends as `kind`; a server of the model answers as
\* soon as the request was sent, or not before the timeout
AttemptEnds(n, kind) ==
    /\ pc \in {"gather", "generate", "done"}
    /\ n \in DOMAIN tasks
    /\ tasks[n].phase = "request"
    /\ now = tasks[n].until - ServerNamed(config, n).timeout
    /\ tasks' = [tasks EXCEPT ![n] = AfterAttempt(@, ServerNamed(config, n), kind, now)]
    /\ UNCHANGED <<automationVars, config, now, routing_cache, health_cache, ret, pc, call, ncalls>>

\* the session.post of task n runs into the server's timeout
AttemptTimesOut(n) ==
    /\ pc \in {"gather", "generate", "done"}
    /\ n \in DOMAIN tasks
    /\ tasks[n].phase = "request"
    /\ tasks[n].until = now
    /\ tasks' = [tasks EXCEPT ![n] = AfterAttempt(@, ServerNamed(config, n), "timeout", now)]
    /\ UNCHANGED <<automationVars, config, now, routing_cache, health_cache, ret, pc, call, ncalls>>

\* the asyncio.sleep of task n is over
BackoffEnds(n) ==
    /\ pc \in {"gather", "generate", "done"}
    /\ n \in DOMAIN tasks
    /\ tasks[n].phase = "backoff"
    /\ tasks[n].until = now
    /\ tasks' = [tasks EXCEPT ![n] = AfterBackoff(@, ServerNamed(config, n), now)]
    /\ UNCHANGED <<automationVars, config, now, routing_cache, health_cache, ret, pc, call, ncalls>>

\* gather taken as complete while tasks still run
PendingNone == {}

\* the tasks gather still waits for
Pending == {n \in DOMAIN tasks : tasks[n].phase \in {"request", "backoff"}}

\* the responses of the tasks, in the order the tasks were created
GatheredResponses ==
    LET present == SelectSeq(call.names, LAMBDA n : n \in DOMAIN tasks)
    IN  [i \in 1..Len(present) |-> tasks[present[i]].response]

\* the except asyncio.TimeoutError clause of _execute_on_servers
TimeoutResponses(ci) ==
    [i \in 1..Len(call.names) |->
        MCPResponse(call.names[i], FALSE, "Request timeout",
                    ConfigFiles[ci].request_timeout)]

\* time passes until the next timer of the call: a server timeout, the end of
\* a backoff sleep, or the global deadline
TimePasses ==
    /\ pc = "gather"
    /\ Pending # {}
    /\ now < call.deadline
    /\ \A n \in Pending : now < tasks[n].until
    /\ now' = Min(call.deadline,
                  CHOOSE u \in {tasks[n].until : n \in Pending} :
                      \A n \in Pending : u <= tasks[n].until)
    /\ UNCHANGED <<automationVars, config, routing_cache, health_cache, ret, pc, call, tasks, ncalls>>

\* gather(...) completed within the deadline
GatherCompletes ==
    /\ pc = "gather"
    /\ Pending = {}
    /\ call' = [call EXCEPT !.responses = GatheredResponses]
    /\ pc' = "generate"
    /\ UNCHANGED <<automationVars, config, now, routing_cache, health_cache, ret, tasks, ncalls>>

\* a timeout that returns and leaves the pending tasks running
LeftRunning == tasks

\* the tasks once wait_for has cancelled gather, which cancels each of its
\* children that is not done: CancelledError is raised at the await the task
\* is suspended in (session.post or asyncio.sleep), and neither except clause
\* of execute_request continues the retry loop on it
CancelledByWaitFor ==
    [n \in DOMAIN tasks |->
        IF n \in Pending THEN [tasks[n] EXCEPT !.phase = "cancelled"]
        ELSE tasks[n]]

\* wait_for ran into request_timeout: the tasks still pending are cancelled
GlobalTimeout ==
    /\ pc = "gather"
    /\ Pending # {}
    /\ now = call.deadline
    /\ tasks' = CancelledByWaitFor
    /\ call' = [call EXCEPT !.fired = TRUE, !.responses = TimeoutResponses(config)]
    /\ pc' = "generate"
    /\ UNCHANGED <<automationVars, config, now, routing_cache, health_cache, ret, ncalls>>

\* _generate_contextual_response and the construction of the result;
\* `generation` is what the generator does, `fault` an exception raised while
\* the OrchestrationResult is built
GenerateAndReturn(generation, fault) ==
    /\ pc = "generate"
    /\ LET successful == SelectSeq(call.responses, LAMBDA r : r.success)
           invoked == GeneratorInvoked(successful)
           final_response == IF ~invoked \/ generation = "raise"
                             THEN "" ELSE "response"
       IN  call' = [call EXCEPT
                      !.generator_input = IF invoked THEN Len(successful) ELSE -1,
                      !.result =
                        IF fault THEN ProcessingError
                        ELSE OrchestrationResult(call.routing_result, call.responses,
                                                 final_response,
                                                 AnySuccess(call.responses))]
    /\ pc' = "done"
    /\ UNCHANGED <<automationVars, config, now, routing_cache, health_cache, ret, tasks, ncalls>>

-----------------------------------------------------------------------------
(* The trigger processor (automation/trigger_processor.py) *)

\* the priority arguments add_trigger is called with (5 is the default)
Priorities == {1, 5}

NoItem == [id |-> 0, priority |-> 0]

\* a task made by asyncio.create_task: a worker waits in queue.get or is
\* inside _process_single_trigger; a scheduler waits in its sleep
Task(kind) == [kind |-> kind, state |-> "waiting", item |-> NoItem, failed |-> FALSE]

NoLast == [op |-> "none", returned |-> TRUE, created |-> 0]

\* TriggerProcessor.__init__; added and handed are the history of add_trigger
\* and of the calls of orchestrator.process_trigger
NewProcessor ==
    [running |-> FALSE, processing_tasks |-> <<>>, tasks |-> <<>>,
     trigger_queue |-> <<>>, stops |-> {}, added |-> <<>>, handed |-> <<>>,
     starts |-> 0, last |-> NoLast]

\* the tasks that have neither ended nor been asked to end
RunningTasks(kind) ==
    {id \in DOMAIN processor.tasks : /\ processor.tasks[id].kind = kind
                                     /\ processor.tasks[id].state \in {"waiting", "processing"}}

\* start(): it never awaits, so it is one step
Start ==
    /\ IF processor.running
       THEN processor' = [processor EXCEPT
                !.last = [op |-> "start", returned |-> TRUE, created |-> 0]]
       ELSE /\ processor.starts < MaxStarts
            /\ LET first == Len(processor.tasks)
                   created == <<Task("worker"), Task("worker"), Task("worker"),
                                Task("scheduler")>>
               IN  processor' = [processor EXCEPT
                       !.running = TRUE,
                       !.tasks = @ \o created,
                       !.processing_tasks = @ \o [i \in 1..Len(created) |-> first + i],
                       !.starts = @ + 1,
                       !.last = [op |-> "start", returned |-> TRUE,
                                 created |-> Len(created)]]
    /\ UNCHANGED <<webhook, routerVars, engineVars>>

\* task.cancel(): a task that has ended is left alone
CancelTask(task) ==
    IF task.state = "done" THEN task ELSE [task EXCEPT !.state = "cancelling"]

\* stop() up to its await: with tasks in the list it suspends in gather
StopBegin ==
    /\ IF ~processor.running
       THEN processor' = [processor EXCEPT
                !.last = [op |-> "stop", returned |-> TRUE, created |-> 0]]
       ELSE LET listed == {processor.processing_tasks[i] :
                               i \in DOMAIN processor.processing_tasks}
                cancelled == [id \in DOMAIN processor.tasks |->
                                 IF id \in listed
                                 THEN CancelTask(processor.tasks[id])
                                 ELSE processor.tasks[id]]
            IN  IF listed # {}
                THEN processor' = [processor EXCEPT
                         !.running = FALSE,
                         !.tasks = cancelled,
                         !.stops = @ \cup {listed},
                         !.last = [op |-> "stop", returned |-> FALSE, created |-> 0]]
                ELSE processor' = [processor EXCEPT
                         !.running = FALSE,
                         !.processing_tasks = <<>>,
                         !.last = [op |-> "stop", returned |-> TRUE, created |-> 0]]
    /\ UNCHANGED <<webhook, routerVars, engineVars>>

\* stop() after its await: every awaited task has ended, the list is cleared
StopEnd(awaited) ==
    /\ awaited \in processor.stops
    /\ \A id \in awaited : processor.tasks[id].state = "done"
    /\ processor' = [processor EXCEPT
           !.processing_tasks = <<>>,
           !.stops = @ \ {awaited},
           !.last = [op |-> "stop", returned |-> TRUE, created |-> 0]]
    /\ UNCHANGED <<webhook, routerVars, engineVars>>

\* CancelledError reaches a task at its await: the loop breaks
Cancelled(id) ==
    /\ id \in DOMAIN processor.tasks
    /\ processor.tasks[id].state = "cancelling"
    /\ processor' = [processor EXCEPT !.tasks[id].state = "done",
                                      !.tasks[id].item = NoItem]
    /\ UNCHANGED <<webhook, routerVars, engineVars>>

\* the wait of a task times out and its loop test finds _running false
LoopExit(id) ==
    /\ id \in DOMAIN processor.tasks
    /\ processor.tasks[id].state = "waiting"
    /\ ~processor.running
    /\ processor' = [processor EXCEPT !.tasks[id].state = "done"]
    /\ UNCHANGED <<webhook, routerVars, engineVars>>

\* add_trigger(context, priority): the item goes to the end of the queue
AddTrigger(priority) ==
    /\ Len(processor.added) < MaxTriggers
    /\ LET item == [id |-> Len(processor.added) + 1, priority |-> priority]
       IN  processor' = [processor EXCEPT
               !.trigger_queue = Append(@, item),
               !.added = Append(@, item)]
    /\ UNCHANGED <<webhook, routerVars, engineVars>>

\* queue.get() with the priority of an item deciding
QueueGetByPriority(queue) ==
    LET i == CHOOSE i \in DOMAIN queue :
                 \A j \in DOMAIN queue :
                     \/ queue[j].priority < queue[i].priority
                     \/ queue[j].priority = queue[i].priority /\ i <= j
    IN  [item |-> queue[i],
         rest |-> SubSeq(queue, 1, i - 1) \o SubSeq(queue, i + 1, Len(queue))]

\* asyncio.Queue.get(): the oldest item
QueueGet(queue) == [item |-> Head(queue), rest |-> Tail(queue)]

\* a waiting worker gets an item and calls _process_single_trigger, which
\* calls orchestrator.process_trigger with the item's context
WorkerTakes(id) ==
    /\ id \in DOMAIN processor.tasks
    /\ processor.tasks[id].kind = "worker"
    /\ processor.tasks[id].state = "waiting"
    /\ processor.trigger_queue # <<>>
    /\ \E got \in {QueueGet(processor.trigger_queue)} :
           processor' = [processor EXCEPT
               !.trigger_queue = got.rest,
               !.handed = Append(@, got.item),
               !.tasks[id].state = "processing",
               !.tasks[id].item = got.item]
    /\ UNCHANGED <<webhook, routerVars, engineVars>>

\* how _process_single_trigger can end: the result succeeded, the result
\* failed, or an exception was raised and caught
Outcomes == {"success", "failure", "error"}

\* _process_single_trigger returns, task_done, back to the loop test
WorkerFinishes(id, outcome) ==
    /\ id \in DOMAIN processor.tasks
    /\ processor.tasks[id].state = "processing"
    /\ processor' = [processor EXCEPT
           !.tasks[id].state = "waiting",
           !.tasks[id].item = NoItem,
           !.tasks[id].failed = (outcome # "success")]
    /\ UNCHANGED <<webhook, routerVars, engineVars>>

NextProcessor ==
    \/ Start
    \/ StopBegin
    \/ \E awaited \in processor.stops : StopEnd(awaited)
    \/ \E id \in DOMAIN processor.tasks : Cancelled(id)
    \/ \E id \in DOMAIN processor.tasks : LoopExit(id)

NextQueue ==
    \/ Start
    \/ \E priority \in Priorities : AddTrigger(priority)
    \/ \E id \in DOMAIN processor.tasks : WorkerTakes(id)
    \/ \E id \in DOMAIN processor.tasks, outcome \in Outcomes : WorkerFinishes(id, outcome)

-----------------------------------------------------------------------------
(* The webhook endpoint (automation/github_handler.py) *)

\* the secrets of the configuration; "" is github_webhook_secret unset
Secrets == {"", "s1", "s2"}
\* request bodies: one that is JSON and one that is not
Bodies == {"{}", "not json"}
IsJson(body) == body = "{}"

\* "sha256=" + hmac.new(secret, body, sha256).hexdigest()
SignatureOf(secret, body) == <<"sha256", secret, body>>

\* a request without the X-Hub-Signature-256 header
NoSignature == <<>>

\* the X-Hub-Signature-256 headers a request can carry
SignatureHeaders ==
    {NoSignature} \cup {SignatureOf(secret, body) : secret \in Secrets \ {""}, body \in Bodies}
\* the X-GitHub-Event headers; "" is no header
EventHeaders == {"", "push"}

Request(signature, event, body) ==
    [signature |-> signature, event |-> event, body |-> body]

VerifyWebhookSignature(webhook_secret, request) ==
    IF webhook_secret = "" THEN TRUE
    ELSE IF request.signature = NoSignature THEN FALSE
    ELSE request.signature = SignatureOf(webhook_secret, request.body)

NoRequest == Request(NoSignature, "", "")

\* GitHubEventHandler.__init__; secret, request and status describe the last
\* request handled and its answer (200 is the JSONResponse)
NewWebhook ==
    [event_queue |-> <<>>, secret |-> "", request |-> NoRequest, status |-> 0,
     requests |-> 0]

\* the status handle_webhook answers with, and whether it queued the event
WebhookAnswer(webhook_secret, request) ==
    IF ~VerifyWebhookSignature(webhook_secret, request)
    THEN [raised |-> 403, queued |-> FALSE]
    ELSE IF request.event = ""
    THEN [raised |-> 400, queued |-> FALSE]
    ELSE IF ~IsJson(request.body)
    THEN [raised |-> 500, queued |-> FALSE]
    ELSE [raised |-> 0, queued |-> TRUE]

\* handle_webhook: whatever is raised inside its try is caught by its
\* "except Exception" and raised again as status 500
HandleWebhook(webhook_secret, request) ==
    /\ webhook.requests < MaxRequests
    /\ \E answer \in {WebhookAnswer(webhook_secret, request)} :
           webhook' = [webhook EXCEPT
               !.event_queue = IF answer.queued
                               THEN Append(@, [event_type |-> request.event,
                                               payload |-> request.body])
                               ELSE @,
               !.secret = webhook_secret,
               !.request = request,
               !.status = IF answer.raised # 0 THEN 500 ELSE 200,
               !.requests = @ + 1]
    /\ UNCHANGED <<processor, routerVars, engineVars>>

NextWebhook ==
    \E webhook_secret \in Secrets, signature \in SignatureHeaders,
       event \in EventHeaders, body \in Bodies :
        HandleWebhook(webhook_secret, Request(signature, event, body))

-----------------------------------------------------------------------------
(* Specifications *)

Init ==
    /\ config = 0
    /\ now = 0
    /\ routing_cache = <<>>
    /\ health_cache = <<>>
    /\ ret = NoReturn
    /\ pc = "idle"
    /\ call = NoCall
    /\ tasks = <<>>
    /\ ncalls = 0
    /\ processor = NewProcessor
    /\ webhook = NewWebhook

Next ==
    \/ \E context \in Triggers : Route(context)
    \/ \E f \in FileStates : Reload(f)
    \/ TickShort
    \/ TickDay

Spec == Init /\ [][Next]_vars

\* the router with calls in which rule evaluation or scoring raises, within
\* one day
NextRouteFaults ==
    \/ \E context \in Triggers : Route(context)
    \/ \E context \in Triggers : RouteFaulting(context)
    \/ \E f \in FileStates : Reload(f)
    \/ TickShort

SpecRouteFaults == Init /\ [][NextRouteFaults]_vars

\* the engine after initialize(), under the configuration with servers of
\* different timeouts and retry counts or the one with every server disabled
InitProcess ==
    /\ config \in {2, 3}
    /\ now = 0
    /\ routing_cache = <<>>
    /\ health_cache = <<>>
    /\ ret = NoReturn
    /\ pc = "idle"
    /\ call = NoCall
    /\ tasks = <<>>
    /\ ncalls = 0
    /\ processor = NewProcessor
    /\ webhook = NewWebhook

\* the triggers handed to process_trigger: one with content, one without
ProcessTriggers == {context \in Triggers : context.source \in {"github", "ai"}
                                            /\ context.branch # "dev"
                                            /\ context.trigger_type # "issue"}

\* one engine processing triggers one after the other
NextProcess ==
    \/ \E context \in ProcessTriggers : StartProcess(context)
    \/ \E retrieval \in {"docs", "raise"} : EnhanceContextWithRag(retrieval)
    \/ \E fault \in BOOLEAN : BeginDispatch(fault)
    \/ \E n \in DOMAIN tasks, kind \in AttemptOutcomes : AttemptEnds(n, kind)
    \/ \E n \in DOMAIN tasks : AttemptTimesOut(n)
    \/ \E n \in DOMAIN tasks : BackoffEnds(n)
    \/ TimePasses
    \/ GatherCompletes
    \/ GlobalTimeout
    \/ \E generation \in {"ok", "raise"}, fault \in BOOLEAN :
          GenerateAndReturn(generation, fault)

SpecProcess == InitProcess /\ [][NextProcess]_vars

\* self._active_requests: created empty by __init__; no statement of the
\* program adds an entry to it or removes one
ActiveRequests == <<>>

\* the loop of get_system_status over config.servers, enabled or not: the
\* names of the servers found healthy and the health cache afterwards
RECURSIVE StatusHealth(_, _, _)
StatusHealth(servers, hc, t) ==
    IF servers = <<>> THEN [healthy |-> {}, cache |-> hc]
    ELSE LET h == CheckServerHealth(hc, Head(servers), t)
             rest == StatusHealth(Tail(servers), h.cache, t)
         IN  [healthy |-> IF h.healthy THEN {Head(servers).name} \cup rest.healthy
                          ELSE rest.healthy,
              cache |-> rest.cache]

\* get_system_status, called while the engine is idle or while a
\* process_trigger call waits for its dispatch tasks
GetSystemStatus ==
    /\ pc \in {"idle", "gather", "done"}
    /\ LET servers == ConfigFiles[config].servers
           h == StatusHealth(servers, health_cache, now)
       IN  /\ health_cache' = h.cache
           /\ ret' = [op |-> "status",
                      total_servers |-> Len(servers),
                      enabled_servers |->
                          Cardinality({i \in 1..Len(servers) : servers[i].enabled}),
                      healthy_servers |-> Cardinality(h.healthy),
                      active_requests |-> Cardinality(DOMAIN ActiveRequests)]
    /\ UNCHANGED <<automationVars, config, now, routing_cache, pc, call, tasks, ncalls>>

\* one engine processing triggers, with status queries in between
NextStatus ==
    \/ NextProcess
    \/ GetSystemStatus

SpecStatus == InitProcess /\ [][NextStatus]_vars

\* the caller cancels the asyncio task that awaits process_trigger.  The
\* CancelledError is delivered where the call is suspended, in
\* wait_for(gather(...)): gather cancels the dispatch tasks, whose except
\* clauses (Exception) do not catch it, and process_trigger ends without a
\* result.
CancelCall ==
    /\ pc = "gather"
    /\ tasks' = [n \in DOMAIN tasks |->
                    IF n \in Pending THEN [tasks[n] EXCEPT !.phase = "cancelled"]
                    ELSE tasks[n]]
    /\ pc' = "cancelled"
    /\ ret' = [op |-> "cancel", cancelled |-> Pending]
    /\ UNCHANGED <<automationVars, config, now, routing_cache, health_cache, call, ncalls>>

\* DynamicMCPOrchestrator.shutdown: cancels the tasks registered in
\* _active_requests and waits for them, then closes the client session.  The
\* process_trigger call in flight goes on.
Shutdown ==
    /\ pc \in {"idle", "gather", "done"}
    /\ ret.op # "shutdown"
    /\ ret' = [op |-> "shutdown", cancelled |-> DOMAIN ActiveRequests]
    /\ UNCHANGED <<automationVars, config, now, routing_cache, health_cache, pc, call, tasks, ncalls>>

\* one engine processing triggers, the caller cancelling the call in flight
\* or shutting the engine down
NextShutdown ==
    \/ NextProcess
    \/ CancelCall
    \/ Shutdown

SpecShutdown == InitProcess /\ [][NextShutdown]_vars

\* the selections handed to _execute_on_servers directly: names of the
\* configuration in the order of a selection, and with them a name the
\* configuration read at dispatch time does not hold
GivenSelections ==
    { <<"documentation-server", "deployment-server">>,
      <<"retired-server", "documentation-server">>,
      <<"code-analysis-server", "retired-server", "deployment-server">>,
      <<"retired-server">> }

\* a call of _execute_on_servers(context, server_names) with a given selection
ExecuteOnServers(context, names) ==
    /\ pc \in {"idle", "generate"}
    /\ ncalls < MaxCalls
    /\ ncalls' = ncalls + 1
    /\ tasks' = <<>>
    /\ call' = Call(context, {}, RoutingResult(names, <<>>, "given", FALSE, now),
                    <<>>, 0, FALSE, <<>>, NoOrchestration)
    /\ pc' = "dispatch"
    /\ UNCHANGED <<automationVars, config, now, routing_cache, health_cache, ret>>

\* _execute_on_servers on its own, from the call to its return
NextDispatch ==
    \/ \E context \in ProcessTriggers, names \in GivenSelections :
          ExecuteOnServers(context, names)
    \/ \E fault \in BOOLEAN : BeginDispatch(fault)
    \/ \E n \in DOMAIN tasks, kind \in AttemptOutcomes : AttemptEnds(n, kind)
    \/ \E n \in DOMAIN tasks : AttemptTimesOut(n)
    \/ \E n \in DOMAIN tasks : BackoffEnds(n)
    \/ TimePasses
    \/ GatherCompletes
    \/ GlobalTimeout

SpecDispatch == InitProcess /\ [][NextDispatch]_vars

-----------------------------------------------------------------------------
(* The pure parts of the router, applied to inputs of their own *)

\* the values of the four conditions a rule may carry
ProbeConditions ==
    [k \in {"repository", "keywords", "user", "branch"} |->
        CASE k = "repository" -> [alts |-> {"org/app"}, dollar |-> FALSE]
          [] k = "keywords" -> <<"Bug", "error">>
          [] k = "user" -> [alts |-> {"alice"}, dollar |-> FALSE]
          [] k = "branch" -> [alts |-> {"main", "master"}, dollar |-> FALSE]]

\* one rule for every set of conditions
ProbeRules ==
    {Rule("probe", {"issue"}, [k \in present |-> ProbeConditions[k]],
          {"code-analysis-server"}, 5, TRUE) :
        present \in SUBSET {"repository", "keywords", "user", "branch"}}

\* triggers in which each field is absent, satisfies its condition, or fails it
ProbeTriggers ==
    {Trigger("issue", "github", content, repository, branch, user_id) :
        content \in {"", "Fix BUG in code", "hello world"},
        repository \in {"", "org/app", "org/application", "other/app"},
        branch \in {"", "main", "main-dev", "dev"},
        user_id \in {"", "alice", "bob"}}

\* the words trigger contents are made of: upper and lower case, a word that
\* holds two keywords of one list ("testing": test, testing), a keyword of
\* three lists ("pipeline"), a keyword inside another word ("decide": cd)
ScoreWords == <<"BUG", "Code", "testing", "Deployment", "pipeline", "decide", "AI">>

RECURSIVE JoinFrom(_, _)
JoinFrom(i, picked) ==
    IF i > Len(ScoreWords) THEN ""
    ELSE IF i \in picked THEN ScoreWords[i] \o " " \o JoinFrom(i + 1, picked)
    ELSE JoinFrom(i + 1, picked)

\* every selection of the words, and a content that holds every keyword of
\* one list
ScoreContents ==
    {JoinFrom(1, picked) : picked \in SUBSET (1..Len(ScoreWords))}
        \cup {"workflow automation trigger schedule job task orchestration pipeline action"}

\* _check_rule_conditions(rule, context), called once
CheckRule(rule, context) ==
    /\ ret = NoReturn
    /\ ret' = [op |-> "check_rule", rule |-> rule, trigger |-> context,
               matched |-> CheckRuleConditions(rule, context)]
    /\ UNCHANGED <<automationVars, config, now, routing_cache, health_cache, pc, call, tasks, ncalls>>

\* _analyze_content_for_capabilities(context), called once
Analyze(context) ==
    /\ ret = NoReturn
    /\ ret' = [op |-> "analyze", trigger |-> context,
               scores |-> AnalyzeContentForCapabilities(context)]
    /\ UNCHANGED <<automationVars, config, now, routing_cache, health_cache, pc, call, tasks, ncalls>>

\* Servers that tie: two of priority 8 that a rule and the content favour
\* alike, three of priority 5 of which one fits within the limit; a disabled
\* server; a disabled rule, a rule for another kind, rules for servers that
\* are not configured (the default rules).
TieConfig ==
    [servers |->
        << Server("alpha-server", <<"documentation">>, 5, TRUE),
           Server("beta-server", <<"code_analysis", "testing">>, 8, TRUE),
           Server("gamma-server", <<"code_analysis">>, 8, TRUE),
           Server("delta-server", <<"documentation">>, 5, TRUE),
           Server("epsilon-server", <<"monitoring">>, 5, TRUE),
           Server("zeta-server", <<"code_analysis">>, 9, FALSE) >>,
     routing_rules |->
        DefaultRules \o
        << Rule("disabled-rule", {"issue", "push", "user_prompt"}, <<>>,
                {"alpha-server"}, 10, FALSE),
           Rule("pr-to-delta", {"pull_request"}, <<>>, {"delta-server"}, 9, TRUE),
           Rule("issue-to-both", {"issue"},
                [keywords |-> <<"bug", "error", "fix", "code">>],
                {"beta-server", "gamma-server"}, 3, TRUE),
           Rule("issue-to-beta", {"issue"}, <<>>, {"beta-server"}, 1, TRUE) >>,
     request_timeout |-> 60]

\* One server, of priority 1, and no rule that names it
LonelyConfig ==
    [servers |-> << Server("inference-server", <<"ai_inference">>, 1, TRUE) >>,
     routing_rules |-> DefaultRules,
     request_timeout |-> 60]

\* the configurations a fresh router is given
ScoreConfigs == {WideConfig, TieConfig, LonelyConfig}

\* the triggers a fresh router is given: those of the model, a pull request,
\* an issue with no content, an issue about other capabilities
ScoreTriggers ==
    Triggers \cup
    { Trigger("pull_request", "github", "lint code bug", "org/app", "dev", "bob"),
      Trigger("issue", "github", "", "org/app", "", "alice"),
      Trigger("issue", "github", "docs for the deployment pipeline", "org/app",
              "", "alice") }

\* the body of route_trigger after the cache test, with the values it
\* computes on the way
RouteSteps(cfg, context, hc, t) ==
    LET avail == GetAvailableServers(cfg.servers, hc, t)
        servers == avail.servers
        names == [i \in 1..Len(servers) |-> servers[i].name]
        rule_matches == ApplyRoutingRules(cfg, context, servers)
        content_scores == AnalyzeContentForCapabilities(context)
        server_scores == CalculateServerScores(cfg, servers, rule_matches,
                                               content_scores, context)
        selected_servers == SelectTopServers(names, server_scores)
    IN  [available |-> names,
         rule_matches |-> rule_matches,
         content_scores |-> content_scores,
         result |-> IF servers = <<>>
                    THEN RoutingResult(<<>>, <<>>, "No available servers", TRUE, t)
                    ELSE RoutingResult(selected_servers, server_scores, "routed",
                                       Len(selected_servers) = 0, t)]

\* route_trigger(context) on a router just constructed over configuration
\* cfg (both caches empty), called once
FreshRoute(cfg, context) ==
    /\ ret = NoReturn
    /\ \E r \in {RouteSteps(cfg, context, <<>>, now)} :
          ret' = [op |-> "fresh_route", cfg |-> cfg, trigger |-> context,
                  available |-> r.available, rule_matches |-> r.rule_matches,
                  content_scores |-> r.content_scores, result |-> r.result]
    /\ UNCHANGED <<automationVars, config, now, routing_cache, health_cache, pc, call, tasks, ncalls>>

\* the servers and rules of demo.py: demo_server_configurations and
\* demo_routing_rules (the pattern ".*" matches at the start of any value)
DemoConfig ==
    [servers |->
        << Server("code-analysis-server",
                  <<"code_analysis", "security", "testing">>, 8, TRUE),
           Server("documentation-server",
                  <<"documentation", "ai_inference">>, 6, TRUE),
           Server("deployment-server",
                  <<"deployment", "monitoring", "workflow_automation">>, 7, TRUE) >>,
     routing_rules |->
        << Rule("issue-code-analysis", {"issue"},
                [keywords |-> <<"bug", "error", "fix", "broken", "failing">>,
                 repository |-> [alts |-> {""}, dollar |-> FALSE]],
                {"code-analysis-server"}, 9, TRUE),
           Rule("pr-code-review", {"pull_request"}, <<>>,
                {"code-analysis-server"}, 8, TRUE),
           Rule("main-branch-deployment", {"push"},
                [branch |-> [alts |-> {"main", "master"}, dollar |-> TRUE]],
                {"deployment-server", "code-analysis-server"}, 9, TRUE) >>,
     request_timeout |-> 60]

\* the triggers of demo_github_automation_scenarios with the servers each is
\* expected to be routed to
DemoScenarios ==
    { [trigger |-> Trigger("issue", "github_issue",
                           "Critical bug: Application crashes when processing large files",
                           "poisontr33s/file-processor", "", ""),
       expected_servers |-> {"code-analysis-server"}],
      [trigger |-> Trigger("pull_request", "github_pr",
                           "Add new file compression algorithm with benchmarks",
                           "poisontr33s/file-processor", "feature/compression-v2", ""),
       expected_servers |-> {"code-analysis-server"}],
      [trigger |-> Trigger("push", "github_push",
                           "Release v2.1.0: Performance improvements and bug fixes",
                           "poisontr33s/file-processor", "main", ""),
       expected_servers |-> {"deployment-server", "code-analysis-server"}],
      [trigger |-> Trigger("issue", "github_issue",
                           "Please add documentation for the new API endpoints",
                           "poisontr33s/api-service", "", ""),
       expected_servers |-> {"documentation-server"}] }

\* route_trigger on a router just constructed over the demo configuration,
\* called once with the trigger of a scenario
DemoRoute(scenario) ==
    /\ ret = NoReturn
    /\ \E r \in {RouteSteps(DemoConfig, scenario.trigger, <<>>, now)} :
          ret' = [op |-> "demo_route", scenario |-> scenario,
                  trigger |-> scenario.trigger,
                  rule_matches |-> r.rule_matches,
                  content_scores |-> r.content_scores, result |-> r.result]
    /\ UNCHANGED <<automationVars, config, now, routing_cache, health_cache, pc, call, tasks, ncalls>>

NextPure ==
    \/ \E scenario \in DemoScenarios : DemoRoute(scenario)
    \/ \E rule \in ProbeRules, context \in ProbeTriggers : CheckRule(rule, context)
    \/ \E content \in ScoreContents :
          Analyze(Trigger("issue", "github", content, "org/app", "", "alice"))
    \/ \E cfg \in ScoreConfigs, context \in ScoreTriggers : FreshRoute(cfg, context)

SpecPure == Init /\ [][NextPure]_vars

-----------------------------------------------------------------------------
(* Every way a RoutingResult is produced *)

\* route_trigger on a fresh router, and process_trigger on an engine whose
\* configuration is still to be loaded: the file may be valid, missing or
\* invalid.  A server here answers at once and well, or not at all.
NextResults ==
    \/ \E cfg \in ScoreConfigs, context \in ScoreTriggers : FreshRoute(cfg, context)
    \/ \E context \in ProcessTriggers : StartProcess(context)
    \/ \E retrieval \in {"docs", "raise"} : EnhanceContextWithRag(retrieval)
    \/ \E fault \in BOOLEAN : BeginDispatch(fault)
    \/ \E n \in DOMAIN tasks : AttemptEnds(n, "ok")
    \/ \E n \in DOMAIN tasks : AttemptTimesOut(n)
    \/ \E n \in DOMAIN tasks : BackoffEnds(n)
    \/ TimePasses
    \/ GatherCompletes
    \/ GlobalTimeout
    \/ \E generation \in {"ok", "raise"}, fault \in BOOLEAN :
          GenerateAndReturn(generation, fault)

SpecResults == Init /\ [][NextResults]_vars

\* start and stop calls in any interleaving, with the tasks they make and end
SpecProcessor == Init /\ [][NextProcessor]_vars

\* a processor that is started and not stopped: the event loop runs every
\* task that can run, and process_trigger returns
SpecQueue ==
    /\ Init
    /\ [][NextQueue]_vars
    /\ WF_vars(\E id \in DOMAIN processor.tasks : WorkerTakes(id))
    /\ WF_vars(\E id \in DOMAIN processor.tasks, outcome \in Outcomes :
                   WorkerFinishes(id, outcome))

\* webhook requests, one after the other
SpecWebhook == Init /\ [][NextWebhook]_vars

-----------------------------------------------------------------------------
(* Properties of the router *)

\* the servers of the active configuration
ActiveServers == ActiveServersOf(config)

\* C1: every RoutingResult returned by route has at most 3 selected servers,
\* listed in non-increasing order of confidence score, each with a score
\* strictly above 0.1, and no scored server left out of the selection has a
\* score strictly greater than that of a selected one.
C1_SelectionBoundedSortedAboveThreshold ==
    ret.op = "route" =>
        LET sel == ret.result.selected_servers
            sc == ret.result.confidence_scores
        IN  /\ Len(sel) <= 3
            /\ Range(sel) \subseteq DOMAIN sc
            /\ \A i, j \in 1..Len(sel) : i < j => sc[sel[i]] >= sc[sel[j]]
            /\ \A i \in 1..Len(sel) : 10 * sc[sel[i]] > 10 * ScoreUnit
            /\ \A n \in (DOMAIN sc) \ Range(sel) :
                  \A i \in 1..Len(sel) : sc[n] <= sc[sel[i]]

\* route returned a freshly computed selection of three servers that left out
\* a server scoring above the threshold
C1_Witness ==
    /\ ret.op = "route" /\ ret.scored
    /\ Len(ret.result.selected_servers) = 3
    /\ \E n \in DOMAIN ret.result.confidence_scores :
          /\ n \notin Range(ret.result.selected_servers)
          /\ ret.result.confidence_scores[n] > ScoreUnit

\* C2: if no server of the active configuration is enabled (or it has no
\* server at all), route returns an empty selection with fallback_used = true
\* and does not raise.
C2_NoEnabledServerFallsBack ==
    (ret.op = "route" /\ config # 0 /\ \A server \in ActiveServers : ~server.enabled)
        => /\ ret.result.selected_servers = <<>>
           /\ ret.result.fallback_used
           /\ ~ret.raised

\* route returned under a configuration whose servers are all disabled
C2_Witness ==
    /\ ret.op = "route" /\ config # 0
    /\ ActiveServers # {} /\ \A server \in ActiveServers : ~server.enabled
    /\ ret.result.selected_servers = <<>> /\ ret.result.fallback_used

\* route returned under a configuration without servers
C2_WitnessEmptyList ==
    /\ ret.op = "route" /\ config # 0 /\ ActiveServers = {}
    /\ ret.result.selected_servers = <<>> /\ ret.result.fallback_used

\* C3: a route call that finds, for its key, a result stored less than 300
\* seconds earlier returns that stored result, runs no rule evaluation or
\* scoring, and changes neither the routing cache nor the health cache.
C3_FreshEntryReturnedUnchanged ==
    (ret.op = "route" /\ ret.cached_age >= 0 /\ ret.cached_age < 300)
        => /\ ret.hit
           /\ GenerateCacheKey(ret.trigger) \in DOMAIN routing_cache
           /\ ret.result = routing_cache[GenerateCacheKey(ret.trigger)]
           /\ ret.result.timestamp = now - ret.cached_age
           /\ ~ret.scored
           /\ ~ret.changed

\* route answered from an entry stored a positive time, less than 300 seconds,
\* earlier
C3_Witness ==
    /\ ret.op = "route" /\ ret.hit
    /\ ret.cached_age > 0 /\ ret.cached_age < 300
    /\ ret.result.selected_servers # <<>>

\* C4: a cached result whose age is 300 seconds or more (a day or more
\* included) is never returned: route recomputes and replaces the entry.
C4_StaleEntryRecomputed ==
    (ret.op = "route" /\ ret.cached_age >= 300)
        => /\ ~ret.hit
           /\ ret.result.timestamp = now
           /\ routing_cache[GenerateCacheKey(ret.trigger)] = ret.result

\* C5: every server in the selection of a RoutingResult returned by route is,
\* at the time of return, enabled in the active configuration and healthy.
C5_SelectedEnabledAndHealthy ==
    ret.op = "route" =>
        \A n \in Range(ret.result.selected_servers) :
            \E server \in ActiveServers :
                /\ server.name = n
                /\ server.enabled
                /\ HealthProbe(server)
                /\ n \in DOMAIN health_cache /\ health_cache[n][1]

\* route answered from the cache with a non-empty selection, at a later time
\* than the health of the selected servers was last checked
C5_Witness ==
    /\ ret.op = "route" /\ ret.hit
    /\ ret.result.selected_servers # <<>>
    /\ \A n \in Range(ret.result.selected_servers) :
          n \in DOMAIN health_cache /\ health_cache[n][2] < now

\* C16: once a reload has completed, neither cache holds an entry computed
\* under the previous configuration: both are empty when reload returns, and
\* at any time every routing entry is what the active configuration computes
\* for a trigger of its key, every health entry names an enabled server of
\* the active configuration, and a route call that computes returns the
\* result of the active configuration.
C16_ReloadLeavesNoStaleEntry ==
    /\ (ret.op = "reload" /\ ~ret.raised) =>
          routing_cache = <<>> /\ health_cache = <<>>
    /\ \A key \in DOMAIN routing_cache :
          /\ config # 0
          /\ \E context \in Triggers :
                /\ GenerateCacheKey(context) = key
                /\ routing_cache[key] =
                      ComputeRoute(config, context, health_cache,
                                   routing_cache[key].timestamp).result
    /\ \A n \in DOMAIN health_cache :
          \E server \in ActiveServers : server.name = n /\ server.enabled
    /\ (ret.op = "route" /\ ~ret.hit /\ ret.scored) =>
          ret.result = ComputeRoute(config, ret.trigger, health_cache, now).result

\* a reload installed the configuration of five servers and emptied caches
\* that held entries
C16_Witness ==
    /\ ret.op = "reload" /\ ~ret.raised /\ ret.changed
    /\ config = 2
    /\ routing_cache = <<>> /\ health_cache = <<>>

\* a route call, later than time 0, computed scores only the configuration of
\* five servers gives
C16_WitnessRouteAfter ==
    /\ ret.op = "route" /\ ~ret.hit /\ ret.scored /\ now > 0
    /\ "security-server" \in DOMAIN ret.result.confidence_scores

\* C22: under every order of the route calls of one engine, the routing
\* cache holds for a key one complete RoutingResult, the one a call for that
\* key returned; a call that finds the entry another call stored at this
\* very instant is given that entry and runs no scoring, and the health cache
\* holds complete entries.
C22_ConcurrentRoutesShareOneEntry ==
    /\ [](/\ (ret.op = "route" /\ ret.scored) =>
                /\ GenerateCacheKey(ret.trigger) \in DOMAIN routing_cache
                /\ routing_cache[GenerateCacheKey(ret.trigger)] = ret.result
          /\ \A key \in DOMAIN routing_cache :
                /\ DOMAIN routing_cache[key] = DOMAIN NoResult
                /\ routing_cache[key].timestamp <= now
                /\ Range(routing_cache[key].selected_servers)
                      \subseteq DOMAIN routing_cache[key].confidence_scores
          /\ \A n \in DOMAIN health_cache :
                health_cache[n][1] \in BOOLEAN /\ health_cache[n][2] <= now)
    /\ [][(/\ ret'.op = "route"
           /\ GenerateCacheKey(ret'.trigger) \in DOMAIN routing_cache
           /\ routing_cache[GenerateCacheKey(ret'.trigger)].timestamp = now)
          => /\ ret'.hit /\ ~ret'.scored
             /\ ret'.result = routing_cache[GenerateCacheKey(ret'.trigger)]
             /\ routing_cache' = routing_cache]_vars

\* a route call was given the entry that a call for the same key, with
\* another trigger, stored at the same instant
C22_Witness ==
    /\ ret.op = "route" /\ ret.hit /\ ~ret.scored /\ ret.cached_age = 0
    /\ ret.result = routing_cache[GenerateCacheKey(ret.trigger)]
    /\ ret.trigger.branch = "dev"
    /\ Len(ret.result.selected_servers) > 0

\* C29: route uses a health-cache entry only while its age is below the
\* server's health-check interval, and refreshes it otherwise, whatever the
\* age (one day or more included): after a route that computed its result,
\* the health entry of every server it scored is younger than the interval.
C29_HealthEntryYoungerThanInterval ==
    (ret.op = "route" /\ ret.scored) =>
        \A n \in DOMAIN ret.result.confidence_scores :
            /\ n \in DOMAIN health_cache
            /\ now - health_cache[n][2] < ServerNamed(config, n).health_check_interval

\* what the code does ensure: an entry that is used is younger than the
\* interval or at least one day old
C29_HoldsForAgesBelowOneDay ==
    (ret.op = "route" /\ ret.scored) =>
        \A n \in DOMAIN ret.result.confidence_scores :
            /\ n \in DOMAIN health_cache
            /\ \/ now - health_cache[n][2] < ServerNamed(config, n).health_check_interval
               \/ now - health_cache[n][2] >= SecondsPerDay

\* C35: under an unchanged configuration and health state, after any earlier
\* route calls, the selection route returns for a trigger is the selection a
\* computation that bypasses the routing cache produces for that trigger,
\* its branch and user id and the split of its text between source and
\* content taken into account.
C35_RouteEqualsUncachedComputation ==
    (ret.op = "route" /\ ret.hit /\ config # 0) =>
        ret.result.selected_servers =
            ComputeRoute(config, ret.trigger, health_cache, now).result.selected_servers

\* C36: route never raises; a call in which the configuration is missing or
\* cannot be loaded, or rule evaluation or scoring raises, returns a result
\* with an empty selection and fallback_used = true; neither that result nor
\* the no-available-servers result is written to the routing cache (every
\* entry is a scored result, and such a call leaves the cache as it was), so
\* the next call for the same trigger recomputes.
C36_ErrorResultsNeverCached ==
    /\ [](/\ ret.op = "route" => ~ret.raised
          /\ (/\ ret.op = "route"
              /\ ret.result.routing_reason
                    \in {"Routing error", "No available servers"}) =>
                (/\ ret.result.selected_servers = <<>>
                 /\ ret.result.fallback_used
                 /\ ~ret.hit)
          /\ \A key \in DOMAIN routing_cache :
                routing_cache[key].routing_reason = "routed")
    /\ [][(/\ ret'.op = "route"
           /\ ret'.result.routing_reason
                 \in {"Routing error", "No available servers"})
              => routing_cache' = routing_cache]_vars
    /\ [][(/\ ret.op = "route"
           /\ ret.result.routing_reason
                 \in {"Routing error", "No available servers"}
           /\ ret'.op = "route"
           /\ ret'.trigger = ret.trigger)
              => ~ret'.hit]_vars

\* a call whose scoring raised, made while the cache held a stale entry for
\* its key, and the call for the same trigger after it, which scored
C36_Witness ==
    /\ ret.op = "route"
    /\ ret.result.routing_reason = "Routing error"
    /\ config # 0
    /\ ret.cached_age >= CacheTTL
    /\ health_cache # <<>>

C36_WitnessRecomputed ==
    /\ ret.op = "route" /\ ret.scored /\ ~ret.hit
    /\ ret.cached_age >= CacheTTL

\* the configuration could not be loaded; no server was available
C36_WitnessNoConfiguration ==
    /\ ret.op = "route" /\ ret.result.routing_reason = "Routing error" /\ config = 0

C36_WitnessNoServers ==
    /\ ret.op = "route" /\ ret.result.routing_reason = "No available servers"
    /\ config # 0 /\ health_cache = <<>>

\* C37: a reload that fails while the new configuration is loaded raises to
\* its caller, leaves the configuration that was active installed, and leaves
\* the routing cache and the health cache as they were.
C37_FailedReloadChangesNothing ==
    /\ []((ret.op = "reload" /\ ret.raised) => ~ret.changed)
    /\ [][(ret'.op = "reload" /\ ret'.raised) =>
              (/\ config' = config
               /\ routing_cache' = routing_cache
               /\ health_cache' = health_cache)]_vars
    /\ [][(ret'.op = "reload" /\ ~ret'.raised) =>
              (routing_cache' = <<>> /\ health_cache' = <<>>)]_vars

\* a reload failed while a configuration was installed and both caches held
\* entries
C37_Witness ==
    /\ ret.op = "reload" /\ ret.raised
    /\ config # 0
    /\ routing_cache # <<>>
    /\ health_cache # <<>>

-----------------------------------------------------------------------------
(* Properties of the engine *)

\* the response _execute_on_servers returned for server n
ReturnedFor(n) ==
    call.responses[CHOOSE i \in 1..Len(call.responses) :
                      call.responses[i].server_name = n]

DispatchReturned == pc \in {"generate", "done"} /\ call.names # <<>>

\* C6: success of an OrchestrationResult is true if and only if at least one
\* of its server_responses succeeded (normal, empty-selection and error path).
C6_SuccessIffSomeOutcomeSucceeded ==
    pc = "done" =>
        (call.result.success <=>
            \E i \in 1..Len(call.result.server_responses) :
                call.result.server_responses[i].success)

\* process returned success = true with both a failed and a successful outcome
C6_Witness ==
    /\ pc = "done" /\ call.result.success
    /\ \E i, j \in 1..Len(call.result.server_responses) :
          /\ call.result.server_responses[i].success
          /\ ~call.result.server_responses[j].success

\* process returned on its empty-selection path
C6_WitnessEmptySelection ==
    /\ pc = "done" /\ call.routing_result.selected_servers = <<>>
    /\ ~call.result.success /\ call.result.server_responses = <<>>

\* process returned on its error path
C6_WitnessErrorPath ==
    /\ pc = "done" /\ call.result.routing_result.routing_reason = "Processing error"
    /\ ~call.result.success

\* C7: process ends by returning an OrchestrationResult, never by raising: a
\* call in flight can always take a step until it has returned, and what it
\* returns is a result in which nothing succeeded unless a server answered.
C7_AlwaysReturnsResult ==
    /\ pc \in {"enhance", "dispatch", "gather", "generate"} => ENABLED NextProcess
    /\ pc = "done" =>
          /\ ~call.result.raised
          /\ call.result.success =>
                \E n \in DOMAIN tasks : tasks[n].phase = "done" /\ tasks[n].last = "ok"

\* process returned a result after the global deadline fired with a server
\* still retrying after a timeout of its own
C7_Witness ==
    /\ pc = "done" /\ ~call.result.raised /\ call.fired
    /\ \E n \in DOMAIN tasks : tasks[n].phase = "cancelled" /\ tasks[n].timed_out
    /\ Len(call.result.server_responses) = Len(call.names)

\* process returned a result after an exception outside the dispatch tasks
C7_WitnessFault ==
    /\ pc = "done" /\ ~call.result.raised
    /\ call.result.routing_result.routing_reason = "Processing error"
    /\ call.responses # <<>>

\* C8: after the global deadline fired, each server whose task was pending has
\* the synthetic outcome (failure, 'Request timeout', elapsed = the global
\* timeout) and each server whose task had completed keeps its real outcome.
C8_CompletedTasksKeepOutcome ==
    (DispatchReturned /\ call.fired) =>
        \A n \in DOMAIN tasks :
            IF tasks[n].phase = "done"
            THEN ReturnedFor(n) = tasks[n].response
            ELSE ReturnedFor(n) = MCPResponse(n, FALSE, "Request timeout",
                                              ConfigFiles[config].request_timeout)

\* C9: a server whose executor call ended in its own timeout has a failed
\* outcome, and every other server dispatched with it has the outcome its
\* task produced.
C9_TimeoutLeavesOthersUntouched ==
    DispatchReturned =>
        \A m \in DOMAIN tasks :
            (tasks[m].phase \in {"done", "cancelled"} /\ tasks[m].last = "timeout") =>
                /\ ~ReturnedFor(m).success
                /\ \A n \in (DOMAIN tasks) \ {m} :
                      tasks[n].phase = "done" => ReturnedFor(n) = tasks[n].response

\* C10: a server whose attempts all fail retryably is tried retry_count + 1
\* times, the wait before retry k + 1 being 2^k (so the waits grow strictly),
\* with no wait after the last attempt; a success ends the attempts.
C10_RetriesWithExponentialBackoff ==
    \A n \in DOMAIN tasks :
        LET task == tasks[n]
            server == ServerNamed(config, n)
            made == task.attempt + 1
        IN  /\ made <= server.retry_count + 1
            /\ \A k \in 1..Len(task.waits) : task.waits[k] = 2 ^ (k - 1)
            /\ \A k \in 1..(Len(task.waits) - 1) : task.waits[k] < task.waits[k + 1]
            /\ Len(task.waits) = IF task.phase = "backoff" THEN made ELSE made - 1
            /\ (task.phase = "done" /\ ~task.response.success
                   /\ task.last \in {"http_5xx", "timeout"}) =>
                  /\ made = server.retry_count + 1
                  /\ Len(task.waits) = server.retry_count
            /\ (task.phase = "done" /\ task.response.success) => task.last = "ok"
            /\ task.last = "ok" => task.phase = "done" /\ task.response.success

\* a server with retry_count 2 failed after three attempts and the waits 1, 2
C10_Witness ==
    \E n \in DOMAIN tasks :
        /\ tasks[n].phase = "done" /\ ~tasks[n].response.success
        /\ tasks[n].last = "http_5xx"
        /\ ServerNamed(config, n).retry_count = 2
        /\ tasks[n].attempt = 2
        /\ tasks[n].waits = <<1, 2>>

\* C11: an attempt that ends in a 4xx response or fails on a malformed request
\* is the only attempt of its server: the executor fails at once, with no
\* retry and no backoff wait, whatever the retry_count.
C11_NonRetryableFailsAtOnce ==
    \A n \in DOMAIN tasks :
        tasks[n].last \in {"http_4xx", "malformed"} =>
            /\ tasks[n].attempt = 0
            /\ tasks[n].waits = <<>>
            /\ tasks[n].phase = "done"
            /\ ~tasks[n].response.success

\* C15: after process returned, the metadata map of the trigger the caller
\* passed in holds exactly the keys it had before the call (none, for the
\* triggers handed to process_trigger here), whether or not enrichment ran.
C15_OriginalMetadataUnchanged ==
    pc = "done" => call.metadata = {}

\* C17: the list _execute_on_servers returns holds exactly one outcome for
\* each server name of the selection it was given, under the name of that
\* server, whether gather completed or the global deadline fired, and also
\* when a name of the selection is not in the configuration read.
C17_OneOutcomePerSelectedName ==
    (pc = "generate" /\ call.names # <<>>) =>
        /\ Len(call.responses) = Len(call.names)
        /\ \A n \in Range(call.names) :
              Cardinality({i \in 1..Len(call.responses) :
                              call.responses[i].server_name = n}) = 1

\* C18: if no outcome of a trigger succeeded, final_response is absent and
\* success is false, and the response generator is never invoked with an
\* empty list of successful outcomes.
C18_NoSuccessNoFinalResponse ==
    /\ pc = "done" =>
          ((\A i \in 1..Len(call.responses) : ~call.responses[i].success)
              => /\ call.result.final_response = ""
                 /\ ~call.result.success)
    /\ call.generator_input # 0
    /\ call.generator_input > 0 =>
          call.generator_input =
              Cardinality({i \in 1..Len(call.responses) : call.responses[i].success})

\* process returned after every dispatched server failed: no final response,
\* and the generator was not invoked
C18_Witness ==
    /\ pc = "done" /\ call.responses # <<>> /\ ~call.fired
    /\ \A i \in 1..Len(call.responses) : ~call.responses[i].success
    /\ call.result.server_responses = call.responses
    /\ call.result.final_response = "" /\ ~call.result.success
    /\ call.generator_input = -1

\* C19: within one process call no executor call starts before route has
\* returned, and response generation does not start before every dispatch
\* task has completed or the global deadline has fired.
C19_StagesStrictlyOrdered ==
    /\ pc \in {"idle", "enhance", "dispatch"} => tasks = <<>>
    /\ tasks # <<>> =>
          /\ ret.op = "route" /\ ret.trigger = call.trigger
          /\ call.routing_result = ret.result
          /\ call.names = call.routing_result.selected_servers
    /\ pc \in {"generate", "done"} =>
          \A n \in DOMAIN tasks :
              \/ tasks[n].phase = "done"
              \/ tasks[n].phase = "cancelled" /\ call.fired /\ now >= call.deadline
    /\ call.generator_input >= 0 => pc = "done"
    /\ (pc = "generate" /\ ~call.fired) =>
          \A i \in 1..Len(call.names) : call.responses[i] = tasks[call.names[i]].response

\* generation is about to start, later than the time of the call, after each
\* of three tasks completed within the deadline
C19_Witness ==
    /\ pc = "generate" /\ ~call.fired /\ now > 0
    /\ Len(call.names) = 3
    /\ \A n \in DOMAIN tasks : tasks[n].phase = "done"
    /\ \E n \in DOMAIN tasks : tasks[n].attempt > 0

\* generation is about to start after the global deadline fired
C19_WitnessDeadline ==
    /\ pc = "generate" /\ call.fired /\ now = call.deadline
    /\ \E n \in DOMAIN tasks : tasks[n].phase = "cancelled"

\* C20: the OrchestrationResult process returns carries the RoutingResult
\* that routing produced and the outcomes that dispatch produced, also when
\* the call ended in its error state after routing or after dispatch.
C20_ErrorResultKeepsPartialInformation ==
    pc = "done" =>
        /\ call.result.routing_result = call.routing_result
        /\ call.result.server_responses = call.responses

\* the same for the calls that did not end in the error state
C20_HoldsOutsideErrorState ==
    (pc = "done" /\ call.result.routing_result.routing_reason # "Processing error") =>
        /\ call.result.routing_result = call.routing_result
        /\ call.result.server_responses = call.responses

\* C21: the active-request count that status reports is the number of
\* process calls that have started and not yet returned.
C21_ActiveRequestsCountsCallsInFlight ==
    ret.op = "status" =>
        ret.active_requests =
            IF pc \in {"enhance", "dispatch", "gather", "generate"} THEN 1 ELSE 0

\* C23: once the caller has cancelled the process call in flight, by
\* cancelling the task that awaits it or through shutdown, the operation of
\* the engine that cancels the active requests, no executor call started for
\* the trigger is still running, and the caches hold complete entries only.
C23_CancelStopsDispatchTasks ==
    (pc = "cancelled" \/ ret.op = "shutdown") =>
        /\ \A n \in DOMAIN tasks : tasks[n].phase \notin {"request", "backoff"}
        /\ \A key \in DOMAIN routing_cache :
              DOMAIN routing_cache[key] = DOMAIN NoResult
        /\ \A n \in DOMAIN health_cache : health_cache[n][1] \in BOOLEAN

\* the same for the cancellation of the task that awaits process_trigger
C23_HoldsForTaskCancellation ==
    pc = "cancelled" =>
        /\ \A n \in DOMAIN tasks : tasks[n].phase \notin {"request", "backoff"}
        /\ \A key \in DOMAIN routing_cache :
              DOMAIN routing_cache[key] = DOMAIN NoResult

\* C30: when the global deadline fires, every task of the call that is still
\* in flight (in an executor call or a backoff wait) is cancelled and the
\* others keep their outcome; once dispatch has returned no task of the call
\* is in flight, and after the deadline fired no task of the call takes
\* another step.
C30_DeadlineCancelsTasksInFlight ==
    /\ [](pc \in {"generate", "done"} =>
            \A n \in DOMAIN tasks :
                /\ tasks[n].phase \notin {"request", "backoff"}
                /\ (tasks[n].phase = "cancelled" => call.fired))
    /\ [][(~call.fired /\ call'.fired) =>
              (/\ DOMAIN tasks' = DOMAIN tasks
               /\ \A n \in DOMAIN tasks :
                     IF tasks[n].phase \in {"request", "backoff"}
                     THEN tasks'[n].phase = "cancelled"
                     ELSE tasks'[n] = tasks[n])]_vars
    /\ [][(call.fired /\ call'.fired) => tasks' = tasks]_vars

\* the deadline fired while one task was in a retry and another had
\* completed; the call has returned
C30_Witness ==
    /\ pc = "done" /\ call.fired
    /\ \E n \in DOMAIN tasks : tasks[n].phase = "cancelled" /\ tasks[n].attempt > 0
    /\ \E n \in DOMAIN tasks : tasks[n].phase = "done"

\* C31: for one trigger the executor calls for all selected servers are
\* started together: at the step that starts dispatch every selected server
\* gets a task that is in its first executor call from that instant, none
\* held back behind another; and at no time are more than three executor
\* calls of the trigger in flight.
C31_CallsStartTogetherAtMostThree ==
    /\ [](Cardinality({n \in DOMAIN tasks : tasks[n].phase = "request"}) <= MaxSelected)
    /\ [][(pc = "dispatch" /\ pc' = "gather") =>
              (/\ DOMAIN tasks' = Range(call.routing_result.selected_servers)
               /\ \A n \in DOMAIN tasks' :
                     /\ tasks'[n].phase = "request"
                     /\ tasks'[n].attempt = 0
                     /\ tasks'[n].start = now)]_vars

\* three executor calls of one trigger in flight, none of them ended
C31_Witness ==
    /\ pc = "gather"
    /\ Cardinality(DOMAIN tasks) = 3
    /\ \A n \in DOMAIN tasks :
          tasks[n].phase = "request" /\ tasks[n].attempt = 0 /\ tasks[n].start = now

\* a task has ended while another of the same trigger is still in its call
C31_WitnessOverlap ==
    /\ pc = "gather"
    /\ \E n \in DOMAIN tasks : tasks[n].phase = "done"
    /\ \E n \in DOMAIN tasks : tasks[n].phase = "request" /\ tasks[n].attempt = 0

\* C32: when route returns an empty selection, process makes no enrichment
\* call and no executor call and returns at once an OrchestrationResult with
\* the RoutingResult of route, no outcome, no aggregated response and
\* success = false.
C32_EmptySelectionReturnsAtOnce ==
    /\ [][(pc \in {"idle", "done"} /\ ncalls' = ncalls + 1
              /\ ret'.result.selected_servers = <<>>) =>
              (/\ pc' = "done"
               /\ tasks' = <<>>
               /\ call'.metadata = {}
               /\ call'.generator_input = -1
               /\ call'.result = OrchestrationResult(ret'.result, <<>>, "", FALSE))]_vars
    /\ []((pc = "done" /\ ret.op = "route" /\ ret.result.selected_servers = <<>>) =>
              (/\ tasks = <<>>
               /\ call.metadata = {}
               /\ call.result.routing_result = ret.result
               /\ call.result.server_responses = <<>>
               /\ call.result.final_response = ""
               /\ ~call.result.success
               /\ ~call.result.raised))

\* a trigger with content, for which enrichment would add context, was
\* processed while no server was available
C32_Witness ==
    /\ pc = "done"
    /\ ret.op = "route" /\ ret.result.selected_servers = <<>>
    /\ ret.result.fallback_used
    /\ call.trigger.content # ""
    /\ call.result = OrchestrationResult(ret.result, <<>>, "", FALSE)

\* C34: in every RoutingResult that route or process produces, on the normal
\* path, with no server available, on the error path of either, or taken
\* from the routing cache, fallback_used is true exactly when no server is
\* selected, and every selected server has a confidence score.
C34_FallbackIffNothingSelected ==
    LET wellformed(r) ==
            /\ r.fallback_used <=> (r.selected_servers = <<>>)
            /\ Range(r.selected_servers) \subseteq DOMAIN r.confidence_scores
    IN  /\ ret.op \in {"route", "fresh_route"} => wellformed(ret.result)
        /\ pc # "idle" => wellformed(call.routing_result)
        /\ pc = "done" => wellformed(call.result.routing_result)
        /\ \A key \in DOMAIN routing_cache : wellformed(routing_cache[key])

\* process returned through its except clause after route had selected
\* servers
C34_Witness ==
    /\ pc = "done"
    /\ ret.op = "route" /\ Len(ret.result.selected_servers) = MaxSelected
    /\ ~ret.result.fallback_used
    /\ call.result.routing_result.routing_reason = "Processing error"
    /\ call.result.routing_result.fallback_used

\* route's own error path, its no-server path, and a route that scored
\* servers and selected none
C34_WitnessRoutingError ==
    /\ ret.op = "route" /\ ret.result.routing_reason = "Routing error"
    /\ ret.result.fallback_used

C34_WitnessNoServers ==
    /\ ret.op = "route" /\ ret.result.routing_reason = "No available servers"
    /\ ret.result.fallback_used

C34_WitnessNothingAboveThreshold ==
    /\ ret.op = "fresh_route" /\ ret.result.routing_reason = "routed"
    /\ ret.result.selected_servers = <<>> /\ ret.result.fallback_used

-----------------------------------------------------------------------------
(* Properties of the pure parts of the router *)

\* C12: a rule matches a trigger only if every condition present on the rule
\* (repository, keywords, user, branch) is satisfied by the trigger.
C12_MatchNeedsEveryCondition ==
    (ret.op = "check_rule" /\ ret.matched) =>
        LET conditions == ret.rule.conditions
            context == ret.trigger
        IN  /\ "repository" \in DOMAIN conditions =>
                  /\ context.repository # ""
                  /\ ReMatch(conditions["repository"], context.repository)
            /\ "keywords" \in DOMAIN conditions =>
                  \E keyword \in Range(conditions["keywords"]) :
                      Contains(Lower(context.content), Lower(keyword))
            /\ "user" \in DOMAIN conditions =>
                  /\ context.user_id # ""
                  /\ ReMatch(conditions["user"], context.user_id)
            /\ "branch" \in DOMAIN conditions =>
                  /\ context.branch # ""
                  /\ ReMatch(conditions["branch"], context.branch)

\* C13: a rule with a keyword condition matches a trigger only if the content
\* of the trigger holds one of the keywords, case-insensitively, the empty
\* content included.
C13_KeywordRuleNeedsKeyword ==
    (ret.op = "check_rule" /\ "keywords" \in DOMAIN ret.rule.conditions
        /\ ret.matched) =>
            \E i \in 1..Len(ret.rule.conditions["keywords"]) :
                Contains(Lower(ret.trigger.content),
                         Lower(ret.rule.conditions["keywords"][i]))

\* C14: each capability score is hits / |keyword list| for the keywords that
\* occur in the lower-cased content and lies in (0, 1]; a capability without
\* a hit has no entry; the empty content gives the empty map.
C14_ScoreIsHitsOverListSize ==
    ret.op = "analyze" =>
        LET content == Lower(ret.trigger.content)
        IN  /\ ret.trigger.content = "" => ret.scores = <<>>
            /\ DOMAIN ret.scores \subseteq
                  {CapabilityKeywords[i].cap : i \in 1..Len(CapabilityKeywords)}
            /\ \A i \in 1..Len(CapabilityKeywords) :
                  LET cap == CapabilityKeywords[i].cap
                      keywords == CapabilityKeywords[i].keywords
                      occurring == {k \in Range(keywords) : Contains(content, k)}
                  IN  IF occurring = {}
                      THEN cap \notin DOMAIN ret.scores
                      ELSE /\ cap \in DOMAIN ret.scores
                           /\ ret.scores[cap] * Len(keywords)
                                 = Cardinality(occurring) * ScoreUnit
                           /\ 0 < ret.scores[cap] /\ ret.scores[cap] <= ScoreUnit

\* a content in upper and lower case scored 2/13 for code analysis, 2/11 for
\* testing and nothing for documentation
C14_Witness ==
    /\ ret.op = "analyze"
    /\ ret.trigger.content # Lower(ret.trigger.content)
    /\ "documentation" \notin DOMAIN ret.scores
    /\ {"code_analysis", "testing"} \subseteq DOMAIN ret.scores
    /\ ret.scores["code_analysis"] * 13 = 2 * ScoreUnit
    /\ ret.scores["testing"] * 11 = 2 * ScoreUnit

\* a content with every keyword of a list scored 1
C14_WitnessFullScore ==
    /\ ret.op = "analyze"
    /\ "workflow_automation" \in DOMAIN ret.scores
    /\ ret.scores["workflow_automation"] = ScoreUnit

\* C24: for every available server, the confidence score route records is
\* priority*0.1, plus 0.3 times the priority of every rule that matches the
\* server, plus 0.6 times the content score of every capability of the server
\* that has one, plus a bonus of 0.2, given once, when the trigger is an issue
\* or a pull request and the server analyses code or the trigger is a push
\* and the server deploys (scores in units of 1/(10 * ScoreUnit)).
C24_ScoreIsPriorityRulesContentBonus ==
    ret.op = "fresh_route" =>
        \A k \in 1..Len(ret.available) :
            LET cfg == ret.cfg
                context == ret.trigger
                server == cfg.servers[CHOOSE i \in 1..Len(cfg.servers) :
                                         cfg.servers[i].name = ret.available[k]]
                caps == server.capabilities
                matches(j) ==
                    /\ cfg.routing_rules[j].enabled
                    /\ server.name \in cfg.routing_rules[j].target_servers
                    /\ context.trigger_type \in cfg.routing_rules[j].trigger_types
                    /\ CheckRuleConditions(cfg.routing_rules[j], context)
                bonus ==
                    IF \/ /\ context.trigger_type \in {"issue", "pull_request"}
                          /\ "code_analysis" \in Range(caps)
                       \/ /\ context.trigger_type = "push"
                          /\ "deployment" \in Range(caps)
                    THEN 2 * ScoreUnit ELSE 0
            IN  /\ server.name \in DOMAIN ret.result.confidence_scores
                /\ ret.result.confidence_scores[server.name] =
                      server.priority * ScoreUnit
                        + SumSeq([j \in 1..Len(cfg.routing_rules) |->
                                    IF matches(j)
                                    THEN 3 * ScoreUnit * cfg.routing_rules[j].priority
                                    ELSE 0])
                        + SumSeq([j \in 1..Len(caps) |->
                                    IF caps[j] \in DOMAIN ret.content_scores
                                    THEN 6 * ret.content_scores[caps[j]] ELSE 0])
                        + bonus

\* an issue that names two of the thirteen code-analysis keywords, routed
\* under the wide configuration: priority 8, one rule of priority 8, content
\* score 2/13 and the bonus give 0.8 + 2.4 + 0.6 * 2/13 + 0.2
C24_Witness ==
    /\ ret.op = "fresh_route"
    /\ ret.cfg = WideConfig
    /\ ret.trigger.trigger_type = "issue"
    /\ ret.trigger.content = "Fix BUG in code"
    /\ ret.result.confidence_scores["code-analysis-server"] =
          8 * ScoreUnit + 24 * ScoreUnit + 6 * ((2 * ScoreUnit) \div 13)
            + 2 * ScoreUnit

\* a push to the main branch gives the deployment server its rule and the
\* bonus, and the code-analysis server its content score only
C24_WitnessPush ==
    /\ ret.op = "fresh_route"
    /\ ret.cfg = WideConfig
    /\ ret.trigger.trigger_type = "push"
    /\ ret.trigger.branch = "main"
    /\ ret.result.confidence_scores["deployment-server"] =
          7 * ScoreUnit + 21 * ScoreUnit + 2 * ScoreUnit
    /\ ret.result.confidence_scores["code-analysis-server"] =
          8 * ScoreUnit + 6 * ((3 * ScoreUnit) \div 13)

\* C25: of two available servers of equal score, one is selected only if the
\* one earlier in the configuration's server list is selected too and stands
\* before it; the selection is the one list fixed by score and position: its
\* k-th name is the server above the threshold that exactly k-1 others
\* precede (a higher score, or an equal score and an earlier position), and
\* it stops at three names or when no such server is left.
C25_TiesKeepConfigurationOrder ==
    ret.op = "fresh_route" =>
        LET cfg == ret.cfg
            scores == ret.result.confidence_scores
            selected == ret.result.selected_servers
            names == Range(ret.available)
            pos(n) == CHOOSE i \in 1..Len(cfg.servers) : cfg.servers[i].name = n
            at(n) == CHOOSE k \in 1..Len(selected) : selected[k] = n
            above == {n \in names : scores[n] > ScoreUnit}
            precedes(m, n) ==
                \/ scores[m] > scores[n]
                \/ scores[m] = scores[n] /\ pos(m) < pos(n)
        IN  /\ \A a \in names, b \in names :
                  (pos(a) < pos(b) /\ scores[a] = scores[b] /\ b \in Range(selected))
                      => (a \in Range(selected) /\ at(a) < at(b))
            /\ Len(selected) = Min(MaxSelected, Cardinality(above))
            /\ \A k \in 1..Len(selected) :
                  /\ selected[k] \in above
                  /\ Cardinality({m \in above : precedes(m, selected[k])}) = k - 1

\* two servers of priority 8 tie and are both selected in configuration
\* order; three of priority 5 tie for the one place left, and the earliest
\* gets it
C25_Witness ==
    /\ ret.op = "fresh_route"
    /\ ret.cfg = TieConfig
    /\ ret.trigger.trigger_type = "user_prompt"
    /\ ret.result.confidence_scores["beta-server"]
          = ret.result.confidence_scores["gamma-server"]
    /\ ret.result.confidence_scores["alpha-server"]
          = ret.result.confidence_scores["epsilon-server"]
    /\ ret.result.selected_servers = <<"beta-server", "gamma-server", "alpha-server">>

\* a tie that rules and content leave standing: both servers get the same
\* rule and the same content score
C25_WitnessAfterRulesAndContent ==
    /\ ret.op = "fresh_route"
    /\ ret.cfg = TieConfig
    /\ ret.trigger.trigger_type = "pull_request"
    /\ ret.result.confidence_scores["beta-server"]
          = ret.result.confidence_scores["gamma-server"]
    /\ ret.result.confidence_scores["beta-server"] > 10 * ScoreUnit
    /\ ret.result.selected_servers = <<"delta-server", "beta-server", "gamma-server">>

\* C26: an available server of priority 1 that no rule matches, none of whose
\* capabilities has a content score, and that gets no bonus, has the score
\* 0.1 exactly (ScoreUnit) and is not selected; when it is the only
\* available server the result selects nothing and reports the fallback.
C26_ScoreAtThresholdNotSelected ==
    ret.op = "fresh_route" =>
        \A k \in 1..Len(ret.available) :
            LET cfg == ret.cfg
                name == ret.available[k]
                server == cfg.servers[CHOOSE i \in 1..Len(cfg.servers) :
                                         cfg.servers[i].name = name]
                caps == Range(server.capabilities)
                bare ==
                    /\ server.priority = 1
                    /\ ret.rule_matches[name] = <<>>
                    /\ caps \cap DOMAIN ret.content_scores = {}
                    /\ ~ /\ ret.trigger.trigger_type \in {"issue", "pull_request"}
                         /\ "code_analysis" \in caps
                    /\ ~ /\ ret.trigger.trigger_type = "push"
                         /\ "deployment" \in caps
            IN  bare =>
                  /\ ret.result.confidence_scores[name] = ScoreUnit
                  /\ name \notin Range(ret.result.selected_servers)
                  /\ Len(ret.available) = 1 =>
                        /\ ret.result.selected_servers = <<>>
                        /\ ret.result.fallback_used

\* a user prompt with no content, one server of priority 1, no rule for it
C26_Witness ==
    /\ ret.op = "fresh_route"
    /\ ret.cfg = LonelyConfig
    /\ ret.trigger.trigger_type = "user_prompt"
    /\ ret.trigger.content = ""
    /\ ret.available = <<"inference-server">>
    /\ ret.result.confidence_scores["inference-server"] = ScoreUnit
    /\ ret.result.selected_servers = <<>>
    /\ ret.result.fallback_used

\* the same server next to others, and above the threshold once the content
\* names its capability
C26_WitnessAmongOthers ==
    /\ ret.op = "fresh_route"
    /\ ret.cfg = WideConfig
    /\ ret.result.confidence_scores["inference-server"] = ScoreUnit
    /\ ~ret.result.fallback_used

C26_WitnessAboveThreshold ==
    /\ ret.op = "fresh_route"
    /\ ret.cfg = LonelyConfig
    /\ ret.result.confidence_scores["inference-server"] > ScoreUnit
    /\ ret.result.selected_servers = <<"inference-server">>

\* C27: a repository, user or branch condition is satisfied only when the
\* trigger has the field and the whole value matches the pattern: a rule whose
\* conditions hold has, for each such condition, a field value equal to one
\* of the pattern's alternatives (the patterns here are alternations of
\* literals), never a value that only begins with one.
C27_PatternConditionNeedsFullMatch ==
    (ret.op = "check_rule" /\ ret.matched) =>
        \A k \in {"repository", "user", "branch"} \cap DOMAIN ret.rule.conditions :
            LET value == CASE k = "repository" -> ret.trigger.repository
                           [] k = "user" -> ret.trigger.user_id
                           [] k = "branch" -> ret.trigger.branch
            IN  /\ value # ""
                /\ value \in ret.rule.conditions[k].alts

\* what the code does ensure: the field is present and begins with a match
C27_HoldsForPrefix ==
    (ret.op = "check_rule" /\ ret.matched) =>
        \A k \in {"repository", "user", "branch"} \cap DOMAIN ret.rule.conditions :
            LET value == CASE k = "repository" -> ret.trigger.repository
                           [] k = "user" -> ret.trigger.user_id
                           [] k = "branch" -> ret.trigger.branch
            IN  /\ value # ""
                /\ \E a \in ret.rule.conditions[k].alts :
                      Len(a) <= Len(value) /\ SubSeq(value, 1, Len(a)) = a

\* C28: the rule engine's output has one entry for every available server
\* (the enabled servers of the configuration), and a rule is listed for a
\* server only if it is enabled, names the server among its targets, lists
\* the trigger's kind and has every condition it carries satisfied (a pattern
\* condition by the whole field value, a keyword condition by a keyword that
\* occurs in the content); a rule that is disabled, is for another kind or
\* does not target the server is never listed, and listed rules are all that
\* rules add to the server's score.
C28_RuleListedOnlyIfItApplies ==
    ret.op = "fresh_route" =>
        LET cfg == ret.cfg
            context == ret.trigger
            listed(n) == Range(ret.rule_matches[n])
            value(k) == CASE k = "repository" -> context.repository
                          [] k = "user" -> context.user_id
                          [] k = "branch" -> context.branch
            satisfied(rule) ==
                /\ \A k \in {"repository", "user", "branch"} \cap DOMAIN rule.conditions :
                      value(k) # "" /\ value(k) \in rule.conditions[k].alts
                /\ "keywords" \in DOMAIN rule.conditions =>
                      \E i \in 1..Len(rule.conditions["keywords"]) :
                          Contains(Lower(context.content),
                                   Lower(rule.conditions["keywords"][i]))
        IN  /\ DOMAIN ret.rule_matches = Range(ret.available)
            /\ Range(ret.available) =
                  {cfg.servers[i].name : i \in {j \in 1..Len(cfg.servers) :
                                                    cfg.servers[j].enabled}}
            /\ \A n \in DOMAIN ret.rule_matches :
                  /\ \A j \in listed(n) :
                        /\ cfg.routing_rules[j].enabled
                        /\ n \in cfg.routing_rules[j].target_servers
                        /\ context.trigger_type \in cfg.routing_rules[j].trigger_types
                        /\ satisfied(cfg.routing_rules[j])
                  /\ ret.result.confidence_scores[n] >=
                        SumSeq([j \in 1..Len(cfg.routing_rules) |->
                                  IF j \in listed(n)
                                  THEN 3 * ScoreUnit * cfg.routing_rules[j].priority
                                  ELSE 0])
                  /\ \A j \in 1..Len(cfg.routing_rules) :
                        (\/ ~cfg.routing_rules[j].enabled
                         \/ n \notin cfg.routing_rules[j].target_servers
                         \/ context.trigger_type \notin cfg.routing_rules[j].trigger_types)
                            => j \notin listed(n)

\* the same with each condition taken as _check_rule_conditions evaluates it
C28_HoldsWithConditionsAsEvaluated ==
    ret.op = "fresh_route" =>
        LET cfg == ret.cfg
            context == ret.trigger
            listed(n) == Range(ret.rule_matches[n])
            satisfied(rule) == CheckRuleConditions(rule, context)
        IN  /\ DOMAIN ret.rule_matches = Range(ret.available)
            /\ Range(ret.available) =
                  {cfg.servers[i].name : i \in {j \in 1..Len(cfg.servers) :
                                                    cfg.servers[j].enabled}}
            /\ \A n \in DOMAIN ret.rule_matches :
                  /\ \A j \in listed(n) :
                        /\ cfg.routing_rules[j].enabled
                        /\ n \in cfg.routing_rules[j].target_servers
                        /\ context.trigger_type \in cfg.routing_rules[j].trigger_types
                        /\ satisfied(cfg.routing_rules[j])
                  /\ ret.result.confidence_scores[n] >=
                        SumSeq([j \in 1..Len(cfg.routing_rules) |->
                                  IF j \in listed(n)
                                  THEN 3 * ScoreUnit * cfg.routing_rules[j].priority
                                  ELSE 0])
                  /\ \A j \in 1..Len(cfg.routing_rules) :
                        (\/ ~cfg.routing_rules[j].enabled
                         \/ n \notin cfg.routing_rules[j].target_servers
                         \/ context.trigger_type \notin cfg.routing_rules[j].trigger_types)
                            => j \notin listed(n)

\* C33: under the demo configuration an issue that asks for documentation is
\* routed to the documentation server only and a bug-report issue to the
\* code-analysis server only: a server that no rule matches, none of whose
\* capabilities has a keyword hit and that gets no bonus is not selected.
C33_DemoIssuesRoutedToOneServer ==
    (ret.op = "demo_route" /\ ret.trigger.trigger_type = "issue") =>
        /\ Range(ret.result.selected_servers) = ret.scenario.expected_servers
        /\ \A i \in 1..Len(DemoConfig.servers) :
              LET server == DemoConfig.servers[i]
              IN  (/\ ret.rule_matches[server.name] = <<>>
                   /\ Range(server.capabilities) \cap DOMAIN ret.content_scores = {}
                   /\ "code_analysis" \notin Range(server.capabilities))
                      => server.name \notin Range(ret.result.selected_servers)

\* what the code does ensure: the server the scenario names is among the
\* selected ones
C33_HoldsForExpectedAmongSelected ==
    ret.op = "demo_route" =>
        ret.scenario.expected_servers \subseteq Range(ret.result.selected_servers)


-----------------------------------------------------------------------------
(* Properties of the trigger processor and of the webhook endpoint *)

\* C38: under any interleaving of start and stop calls at most 3 worker
\* tasks and one scheduler task exist at any time, and once stop has returned
\* (and no start has followed it) no worker task is still running.
C38_AtMostThreeWorkersNoneAfterStop ==
    /\ Cardinality(RunningTasks("worker")) <= 3
    /\ Cardinality(RunningTasks("scheduler")) <= 1
    /\ (processor.last.op = "stop" /\ processor.last.returned /\ ~processor.running)
           => RunningTasks("worker") = {}

\* C38, the part that holds: start while running creates no task
C38_HoldsStartWhileRunningCreatesNothing ==
    [][(processor.running /\ processor'.last # processor.last
                            /\ processor'.last.op = "start")
          => (processor'.tasks = processor.tasks /\ processor'.last.created = 0)]_vars

\* C38, the part that holds: a stop that is not overtaken by a start leaves
\* no task running when it returns
C38_HoldsWithoutInterleavedStart ==
    (processor.starts = 1 /\ processor.last.op = "stop" /\ processor.last.returned)
        => RunningTasks("worker") \cup RunningTasks("scheduler") = {}


C39_WitnessAfterFailure ==
    /\ \E id \in DOMAIN processor.tasks :
           processor.tasks[id].failed /\ processor.tasks[id].state = "processing"
    /\ Len(processor.handed) = MaxTriggers


\* C40: a webhook request whose signature fails verification (a secret is
\* configured, the signature is missing or wrong) is answered with status 403.
C40_FailedVerificationAnswered403 ==
    (webhook.requests > 0 /\ ~VerifyWebhookSignature(webhook.secret, webhook.request))
        => webhook.status = 403

\* C40, the part that holds: a request that fails verification is never put
\* on the event queue
C40_HoldsFailedVerificationNeverQueued ==
    [][(webhook'.requests # webhook.requests
            /\ ~VerifyWebhookSignature(webhook'.secret, webhook'.request))
          => (webhook'.event_queue = webhook.event_queue)]_vars

\* C40, the part that holds when the body is JSON: a request that passes
\* verification and has an event-type header is queued exactly once
C40_HoldsVerifiedJsonQueuedOnce ==
    [][(webhook'.requests # webhook.requests
            /\ VerifyWebhookSignature(webhook'.secret, webhook'.request)
            /\ webhook'.request.event # ""
            /\ IsJson(webhook'.request.body))
          => (/\ webhook'.event_queue
                    = Append(webhook.event_queue,
                             [event_type |-> webhook'.request.event,
                              payload |-> webhook'.request.body])
              /\ webhook'.status = 200)]_vars

====
